---- MODULE Spec2Model ----
(***************************************************************************)
(* The Inference Guardian of luca-express-talks: the process tracker, the  *)
(* CUDA monitor, the zombie reaper, the inference fence and the daemon     *)
(* that polls them, as one state machine.                                  *)
(*                                                                         *)
(* Time is a clock of ticks.  Lists returned by the OS tools are kept in   *)
(* ascending PID order.  Fields that no code reads back (commandLine text, *)
(* memoryMb, startedAt, lastHeartbeat, processName, firstSeenAt, the       *)
(* message of an alert, freedMemoryMb) are left out of the records; the    *)
(* command line is kept as the one thing classifyRole reads from it, the   *)
(* field moshi: it names moshi.server.                                     *)
(*                                                                         *)
(* The actions take the answers of the OS tools as arguments.  Each        *)
(* specification below puts some of the daemon's calls together with the   *)
(* answers its properties need: Spec (registry and Reaper), ConfigSpec     *)
(* (configuration switches), WindowSpec (time and kill outcomes),          *)
(* TrackerSpec and FairOrphanSpec (process scans), MonitorSpec (GPU data), *)
(* FenceSpec (the fence), PatchSpec and KillSpec (the HTTP endpoints for   *)
(* the Reaper's config and for manual kills), DaemonSpec (start, stop and  *)
(* the timers), FailureSpec (tools that fail, an evaluation that throws),  *)
(* LaunchSpec (the launcher of the backend), OrderSpec (the checks of      *)
(* executeKill), UnionSpec (both polls, every rule), StaleSpec and         *)
(* RoleSpec (status and role of scanned processes), SwitchSpec (the Reaper *)
(* switched off and on), OutageSpec (tools that fail after they answered), *)
(* WarmupSpec (the backend's start-up and the fence), FamilySpec (a        *)
(* backend and its child process), HistorySpec (the rolling GPU history)   *)
(* and ExitSpec (a backend from start to exit).                            *)
(***************************************************************************)
EXTENDS Integers, Sequences, FiniteSets, TLC

VARIABLES
  clock,              \* Date.now()
  managedPids,        \* processTracker: Set of registered PIDs
  lastCpuSnapshot,    \* processTracker: pid -> cpuSeconds of the last scan
  lastCpuAt,          \* the timestamp shared by the entries of lastCpuSnapshot
  staleCycles,        \* processTracker: pid -> consecutive anomaly cycles
  latestProcesses,    \* index: TrackedProcess[] of the last process poll
  managedBackendPid,  \* index: number | null
  latestCuda,         \* index: CudaSnapshot of the last GPU poll
  previousSnapshot,   \* cudaMonitor: snapshot kept for the leak delta
  history,            \* cudaMonitor: rolling history
  vramBudgetMb,       \* cudaMonitor: alert budget
  config,             \* zombieReaper: ReaperConfig
  actionLog,          \* zombieReaper: ReaperAction[]
  candidates,         \* zombieReaper: pid -> rule seen in the previous cycle
  ev,                 \* the frame of an evaluate() suspended at getPortOwner
  fenceConfig,        \* inferenceFence: FenceConfig
  promptStartedAt,    \* inferenceFence: number | null
  locked,             \* inferenceFence: advisory lock
  scanObs,            \* observer: per PID, consecutive scans seen with a dead parent
  idleObs,            \* observer: per PID, consecutive scans seen idle on the GPU
  ret,                \* observer: the last evaluate() call, its arguments and result
  acted,              \* observer: PIDs killed while the snapshot pair stayed the same
  recentKills,        \* observer: the timestamps of the latest `killed` actions
  lastLaunch,         \* observer: the last canLaunchModel call and its result
  posted,             \* observer: the last request to guardian/reaper/config, its answer
  manual,             \* observer: the last request to guardian/kill and its response
  explicit,           \* observer: PIDs registered by a call and not unregistered since
  running,            \* index: the daemon is started
  processTimer,       \* index: the process-poll interval is set
  cudaTimer,          \* index: the GPU-poll interval is set
  intervals,          \* the event loop: per kind, the intervals set and not cleared
  pending,            \* observer: per kind, the polls called and not yet returned
  cycles,             \* observer: per kind, the last poll cycle: failures, lines logged
  fenceCall,          \* observer: the last call of the fence (config calls aside)
  backendState,       \* vite.config: the launcher's record of the backend process
  launcher,           \* vite.config: start calls at their awaits, children, PID polling
  goneObs             \* observer: per PID, its candidate entry saw the PID gone, back

vars == <<clock, managedPids, lastCpuSnapshot, lastCpuAt, staleCycles,
          latestProcesses, managedBackendPid, latestCuda, previousSnapshot,
          history, vramBudgetMb, config, actionLog, candidates, ev,
          fenceConfig, promptStartedAt, locked, scanObs, idleObs, ret, acted,
          recentKills, lastLaunch, posted, manual, explicit, running,
          processTimer, cudaTimer, intervals, pending, cycles, fenceCall,
          backendState, launcher, goneObs>>

trackerVars == <<lastCpuSnapshot, lastCpuAt, staleCycles, latestProcesses, scanObs,
                 idleObs>>
monitorVars == <<latestCuda, previousSnapshot, history, vramBudgetMb>>
reaperVars  == <<config, actionLog, candidates, ev, ret, acted, recentKills>>
fenceVars   == <<fenceConfig, promptStartedAt, locked, lastLaunch>>
daemonVars  == <<running, processTimer, cudaTimer, intervals>>
pollObs     == <<pending, cycles>>
callObs     == <<posted, manual, fenceCall>>
launcherVars == <<backendState, launcher>>

----------------------------------------------------------------------------
(* Bounds of the model *)

\* the clock stops here
MaxClock == 2
\* the action log's cap of 100 entries, scaled to the model
LogCap == 1
\* HISTORY_MAX_ENTRIES (120), scaled to the model
HistoryCap == 2
\* DEFAULT_REAPER_CONFIG.windowMs (300 000 ms) in ticks
WindowTicks == 1
\* DEFAULT_REAPER_CONFIG.maxKillsPerWindow (3), scaled with the log cap
MaxKills == 1
\* DEFAULT_FENCE_CONFIG.promptTimeoutMs (300 000 ms) in ticks
PromptTimeoutTicks == 1
\* the polls of one kind that the model lets be in flight together
MaxPending == 2
\* startBackendProcess calls in flight at a time
MaxStarts == 2

(* Program constants *)

DEFAULT_MAX_CONCURRENT_MODELS == 1
DEFAULT_FENCE_VRAM_BUDGET_MB == 12288
DEFAULT_VRAM_BUDGET_MB == 14000
MODEL_FLOOR_MB == 4000
VRAM_HOG_FLOOR_MB == 2000
STALE_GPU_FLOOR_MB == 500
UNMANAGED_NOISE_FLOOR_MB == 100
LEAK_DELTA_MB == 500
THERMAL_CRITICAL == 90
THERMAL_WARNING == 80
BACKEND_PORT == 8998

\* "no PID": the tools' parsers turn 0 and non-numbers into null
NoPid == 0
\* "no timestamp" / "no GPU memory"
None == -1

\* the PIDs of the model
Pids == {500, 600}
\* a PID that is never a python process (node, a shell, or a dead parent)
OtherPid == 900

----------------------------------------------------------------------------
(* Sequences in ascending PID order *)

Min(S) == CHOOSE x \in S : \A y \in S : x <= y

RECURSIVE SeqOf(_)
SeqOf(S) == IF S = {} THEN <<>> ELSE <<Min(S)>> \o SeqOf(S \ {Min(S)})

Range(s) == {s[i] : i \in 1..Len(s)}

PidsOf(list) == {list[i].pid : i \in 1..Len(list)}

Find(list, pid) == CHOOSE i \in 1..Len(list) : list[i].pid = pid

RECURSIVE SelectSeqBy(_, _)
\* the entries of a list whose pid is in S, in order (Array.filter)
SelectSeqBy(list, S) ==
  IF list = <<>> THEN <<>>
  ELSE (IF Head(list).pid \in S THEN <<Head(list)>> ELSE <<>>) \o SelectSeqBy(Tail(list), S)

\* a trim that drops the newest entries instead (log.pop())
Trim_KeepOldest(log, n) == IF Len(log) > n THEN SubSeq(log, 1, n) ELSE log

\* the last n entries of a log (while (log.length > n) log.shift())
Trim(log, n) == IF Len(log) > n THEN SubSeq(log, Len(log) - n + 1, Len(log)) ELSE log

----------------------------------------------------------------------------
(* processTracker *)

\* registerManagedPid: the changed <<managedPids, staleCycles>>
RegisterManagedPid(mp, sc, pid) ==
  [managedPids |-> mp \cup {pid},
   staleCycles |-> [q \in DOMAIN sc \ {pid} |-> sc[q]]]

\* classifyRole
classifyRole(raw, mp) ==
  IF raw.moshi THEN (IF raw.pid \in mp THEN "backend-server" ELSE "unknown")
  ELSE IF raw.parentPid \in mp THEN "model-worker"
  ELSE IF raw.pid \in mp THEN "backend-server"
  ELSE "unknown"

\* Math.min(100, Math.round(((cur - prev) / dtSec) * 100)), one tick being one second
cpuPercentOf(cur, prev, dt) ==
  LET x == ((cur - prev) * 200 + dt) \div (2 * dt)   \* round half up
  IN IF x > 100 THEN 100 ELSE x

\* determineHealth: the status and the changed staleCycles
determineHealth(raw, role, cpuPercent, gpuMem, alivePids, mp, sc) ==
  LET get(m) == IF raw.pid \in DOMAIN m THEN m[raw.pid] ELSE 0
      put(m, n) == [q \in DOMAIN m \cup {raw.pid} |-> IF q = raw.pid THEN n ELSE m[q]]
      del(m) == [q \in DOMAIN m \ {raw.pid} |-> m[q]]
      orphan == raw.parentPid > 1 /\ raw.parentPid \notin alivePids /\ raw.pid \notin mp
      sc1 == IF orphan THEN put(sc, get(sc) + 1) ELSE sc
      idle == role = "unknown" /\ gpuMem # None /\ gpuMem > STALE_GPU_FLOOR_MB
              /\ cpuPercent <= 1
      sc2 == IF idle THEN put(sc1, get(sc1) + 1) ELSE sc1
  IN IF orphan /\ get(sc1) >= 2 THEN [status |-> "zombie", staleCycles |-> sc1]
     ELSE IF idle /\ get(sc2) >= 3 THEN [status |-> "stale", staleCycles |-> sc2]
     ELSE [status |-> "healthy", staleCycles |-> del(sc2)]

RECURSIVE ScanLoop(_, _, _, _, _, _, _, _)
\* the for loop of scanProcesses over rawProcesses[i..]
ScanLoop(raws, i, gpuMap, alivePids, mp, now, st, lastAt) ==
  IF i > Len(raws) THEN st
  ELSE
    LET raw == raws[i]
        role == classifyRole(raw, mp)
        gpuMem == IF raw.pid \in DOMAIN gpuMap THEN gpuMap[raw.pid] ELSE None
        hasPrev == raw.pid \in DOMAIN st.cpu
        dt == now - lastAt
        cpuPercent == IF hasPrev /\ dt > 0
                      THEN cpuPercentOf(raw.cpuSeconds, st.cpu[raw.pid], dt) ELSE 0
        h == determineHealth(raw, role, cpuPercent, gpuMem, alivePids, mp, st.sc)
        tp == [pid |-> raw.pid, parentPid |-> raw.parentPid, role |-> role,
               moshi |-> raw.moshi, cpuPercent |-> cpuPercent,
               gpuMemoryMb |-> gpuMem, status |-> h.status]
    IN ScanLoop(raws, i + 1, gpuMap, alivePids, mp, now,
                [cpu |-> [q \in DOMAIN st.cpu \cup {raw.pid} |->
                            IF q = raw.pid THEN raw.cpuSeconds ELSE st.cpu[q]],
                 sc |-> h.staleCycles,
                 result |-> Append(st.result, tp)],
                lastAt)

\* scanProcesses: the result and the changed lastCpuSnapshot and staleCycles
scanProcesses(raws, gpuMap, mp, cpu, sc, now, lastAt) ==
  LET alivePids == PidsOf(raws)
      st == ScanLoop(raws, 1, gpuMap, alivePids, mp, now,
                     [cpu |-> cpu, sc |-> sc, result |-> <<>>], lastAt)
      keep == DOMAIN st.cpu \cap alivePids
      pruned == DOMAIN st.cpu \ alivePids
  IN [result |-> st.result,
      lastCpuSnapshot |-> [q \in keep |-> st.cpu[q]],
      staleCycles |-> [q \in DOMAIN st.sc \ pruned |-> st.sc[q]]]

----------------------------------------------------------------------------
(* cudaMonitor *)

NoGpu == [memoryUsedMb |-> None, temperature |-> None]

EmptySnapshot == [timestamp |-> 0, gpu |-> NoGpu, processes |-> <<>>, alerts |-> <<>>]

\* queryGpuProcesses: the rows of nvidia-smi stamped with isManaged
StampManaged(rows, mp) ==
  [i \in 1..Len(rows) |->
     [pid |-> rows[i].pid, usedMemoryMb |-> rows[i].usedMemoryMb,
      isManaged |-> rows[i].pid \in mp]]

\* the "unmanaged-process" alerts, one per process, in list order
UnmanagedAlerts(processes) ==
  LET S == {processes[i].pid : i \in {j \in 1..Len(processes) :
                 ~processes[j].isManaged
                 /\ processes[j].usedMemoryMb > UNMANAGED_NOISE_FLOOR_MB}}
      sel == SelectSeqBy(processes, S)
  IN [i \in 1..Len(sel) |->
        [type |-> "unmanaged-process", severity |-> "warning", pid |-> sel[i].pid]]

\* the leak test without its look at the managed processes
LeakAlerts_AnyOwner(gpu, processes, prev) ==
  IF prev.gpu # NoGpu
     /\ gpu.memoryUsedMb - prev.gpu.memoryUsedMb > LEAK_DELTA_MB
  THEN <<[type |-> "vram-leak", severity |-> "warning", pid |-> NoPid]>>
  ELSE <<>>

\* the "vram-leak" alert
LeakAlerts(gpu, processes, prev) ==
  IF prev.gpu # NoGpu
     /\ gpu.memoryUsedMb - prev.gpu.memoryUsedMb > LEAK_DELTA_MB
     /\ {i \in 1..Len(processes) : processes[i].isManaged} = {}
  THEN <<[type |-> "vram-leak", severity |-> "warning", pid |-> NoPid]>>
  ELSE <<>>

\* generateAlerts
generateAlerts(gpu, processes, prev, budget) ==
  IF gpu = NoGpu THEN <<>>
  ELSE
    (IF gpu.memoryUsedMb > budget
     THEN <<[type |-> "over-budget", severity |-> "warning", pid |-> NoPid]>> ELSE <<>>)
    \o (IF gpu.temperature >= THERMAL_CRITICAL
        THEN <<[type |-> "thermal", severity |-> "critical", pid |-> NoPid]>>
        ELSE IF gpu.temperature >= THERMAL_WARNING
        THEN <<[type |-> "thermal", severity |-> "warning", pid |-> NoPid]>>
        ELSE <<>>)
    \o UnmanagedAlerts(processes)
    \o LeakAlerts(gpu, processes, prev)

\* pollCuda without the loop that shifts the history
pollCuda_NoShift(gpu, rows, mp, prev, hist, budget, now) ==
  LET processes == StampManaged(rows, mp)
      snapshot == [timestamp |-> now, gpu |-> gpu, processes |-> processes,
                   alerts |-> generateAlerts(gpu, processes, prev, budget)]
  IN [snapshot |-> snapshot,
      history |-> IF gpu # NoGpu
                  THEN Append(hist, [timestamp |-> now,
                                     memoryUsedMb |-> gpu.memoryUsedMb,
                                     temperature |-> gpu.temperature,
                                     processCount |-> Len(processes)])
                  ELSE hist]

\* pollCuda: the snapshot and the changed history
pollCuda(gpu, rows, mp, prev, hist, budget, now) ==
  LET processes == StampManaged(rows, mp)
      snapshot == [timestamp |-> now, gpu |-> gpu, processes |-> processes,
                   alerts |-> generateAlerts(gpu, processes, prev, budget)]
  IN [snapshot |-> snapshot,
      history |-> IF gpu # NoGpu
                  THEN Trim(Append(hist, [timestamp |-> now,
                                          memoryUsedMb |-> gpu.memoryUsedMb,
                                          temperature |-> gpu.temperature,
                                          processCount |-> Len(processes)]),
                            HistoryCap)
                  ELSE hist]

----------------------------------------------------------------------------
(* zombieReaper *)

RuleNames == {"orphan-kill", "duplicate-model", "port-squatter", "stale-worker", "vram-hog"}

DEFAULT_REAPER_CONFIG ==
  [enabled |-> TRUE, dryRun |-> FALSE, maxKillsPerWindow |-> MaxKills,
   windowMs |-> WindowTicks, rules |-> [r \in RuleNames |-> TRUE]]

\* config.rules[r], undefined for a missing key
RuleOn(cfg, r) == r \in DOMAIN cfg.rules /\ cfg.rules[r]

\* updateConfig starting from the defaults instead of the current config
updateConfig_FromDefaults(cfg, patch) ==
  [k \in DOMAIN DEFAULT_REAPER_CONFIG \cup DOMAIN patch |->
     IF k \in DOMAIN patch THEN patch[k] ELSE DEFAULT_REAPER_CONFIG[k]]

\* updateConfig: { ...config, ...patch }, then rules merged from the result
updateConfig(cfg, patch) ==
  LET spread == [k \in DOMAIN cfg \cup DOMAIN patch |->
                   IF k \in DOMAIN patch THEN patch[k] ELSE cfg[k]]
  IN IF "rules" \in DOMAIN patch
     THEN [spread EXCEPT !.rules =
             [r \in DOMAIN spread.rules \cup DOMAIN patch.rules |->
                IF r \in DOMAIN patch.rules THEN patch.rules[r] ELSE spread.rules[r]]]
     ELSE spread

\* getConfig: { ...config }
getConfig(cfg) == [k \in DOMAIN cfg |-> cfg[k]]

\* getKillsInWindow
getKillsInWindow(log, cfg, now) ==
  Cardinality({i \in 1..Len(log) :
                 log[i].timestamp > now - cfg.windowMs /\ log[i].outcome = "killed"})

\* Map.set: a present key keeps its place, a new key goes last
SetCandidate(cc, pid, rule) ==
  IF pid \in PidsOf(cc)
  THEN [cc EXCEPT ![Find(cc, pid)] = [pid |-> pid, rule |-> rule]]
  ELSE Append(cc, [pid |-> pid, rule |-> rule])

RECURSIVE SetAll(_, _, _)
SetAll(cc, list, rule) ==
  IF list = <<>> THEN cc
  ELSE SetAll(SetCandidate(cc, Head(list).pid, rule), Tail(list), rule)

\* Rule 1: orphan kill
RuleOrphan(cc, processes, mp, cfg) ==
  IF RuleOn(cfg, "orphan-kill")
  THEN SetAll(cc, SelectSeqBy(processes,
                {processes[i].pid : i \in {j \in 1..Len(processes) :
                    processes[j].status = "zombie" /\ processes[j].pid \notin mp}}),
              "orphan-kill")
  ELSE cc

\* the GPU processes above the model floor
GpuHogs(processes) ==
  {i \in 1..Len(processes) : processes[i].usedMemoryMb > MODEL_FLOOR_MB}

\* Rule 2 without its isManaged test
RuleDuplicate_KeepsNone(cc, cuda, cfg) ==
  IF RuleOn(cfg, "duplicate-model") /\ Cardinality(GpuHogs(cuda.processes)) > 1
  THEN SetAll(cc, SelectSeqBy(cuda.processes,
                {cuda.processes[i].pid : i \in GpuHogs(cuda.processes)}),
              "duplicate-model")
  ELSE cc

\* Rule 2: duplicate model
RuleDuplicate(cc, cuda, cfg) ==
  IF RuleOn(cfg, "duplicate-model") /\ Cardinality(GpuHogs(cuda.processes)) > 1
  THEN SetAll(cc, SelectSeqBy(cuda.processes,
                {cuda.processes[i].pid : i \in {j \in GpuHogs(cuda.processes) :
                    ~cuda.processes[j].isManaged}}),
              "duplicate-model")
  ELSE cc

\* Rule 3: port squatter, given what getPortOwner(8998) returned
RuleSquatter(cc, portOwner, backendPid, mp) ==
  IF portOwner # NoPid /\ portOwner # backendPid /\ portOwner \notin mp
  THEN SetCandidate(cc, portOwner, "port-squatter")
  ELSE cc

\* Rule 4: stale worker
RuleStale(cc, processes, mp, cfg) ==
  IF RuleOn(cfg, "stale-worker")
  THEN SetAll(cc, SelectSeqBy(processes,
                {processes[i].pid : i \in {j \in 1..Len(processes) :
                    processes[j].status = "stale" /\ processes[j].pid \notin mp}}),
              "stale-worker")
  ELSE cc

\* Rule 5: VRAM hog
RuleHog(cc, processes, cuda, cfg) ==
  IF RuleOn(cfg, "vram-hog")
  THEN SetAll(cc, SelectSeqBy(cuda.processes,
                {cuda.processes[i].pid : i \in {j \in 1..Len(cuda.processes) :
                    /\ ~cuda.processes[j].isManaged
                    /\ cuda.processes[j].usedMemoryMb > VRAM_HOG_FLOOR_MB
                    /\ cuda.processes[j].pid \in PidsOf(processes)
                    /\ processes[Find(processes, cuda.processes[j].pid)].role = "unknown"}}),
              "vram-hog")
  ELSE cc

\* executeKill without its registry check
KillOutcome_NoRegistryCheck(pid, currentKillCount, mp, cfg, fate) ==
  IF currentKillCount >= cfg.maxKillsPerWindow
  THEN [outcome |-> "skipped-safety", reason |-> "", sent |-> FALSE]
  ELSE IF cfg.dryRun
  THEN [outcome |-> "dry-run", reason |-> "", sent |-> FALSE]
  ELSE IF fate = "dead"
  THEN [outcome |-> "skipped-safety", reason |-> "dead", sent |-> FALSE]
  ELSE [outcome |-> IF fate = "ok" THEN "killed" ELSE "failed", reason |-> "",
        sent |-> TRUE]

\* executeKill with the dry-run check ahead of the registry check
KillOutcome_DryRunFirst(pid, currentKillCount, mp, cfg, fate) ==
  IF currentKillCount >= cfg.maxKillsPerWindow
  THEN [outcome |-> "skipped-safety", reason |-> "", sent |-> FALSE]
  ELSE IF cfg.dryRun
  THEN [outcome |-> "dry-run", reason |-> "", sent |-> FALSE]
  ELSE IF pid \in mp
  THEN [outcome |-> "skipped-safety", reason |-> "managed", sent |-> FALSE]
  ELSE IF fate = "dead"
  THEN [outcome |-> "skipped-safety", reason |-> "dead", sent |-> FALSE]
  ELSE [outcome |-> IF fate = "ok" THEN "killed" ELSE "failed", reason |-> "",
        sent |-> TRUE]

\* executeKill without its dry-run check
KillOutcome_NoDryRun(pid, currentKillCount, mp, cfg, fate) ==
  IF currentKillCount >= cfg.maxKillsPerWindow
  THEN [outcome |-> "skipped-safety", reason |-> "", sent |-> FALSE]
  ELSE IF pid \in mp
  THEN [outcome |-> "skipped-safety", reason |-> "managed", sent |-> FALSE]
  ELSE IF fate = "dead"
  THEN [outcome |-> "skipped-safety", reason |-> "dead", sent |-> FALSE]
  ELSE [outcome |-> IF fate = "ok" THEN "killed" ELSE "failed", reason |-> "",
        sent |-> TRUE]

\* the outcome executeKill decides; fate is what the OS answers for the PID
KillOutcome(pid, currentKillCount, mp, cfg, fate) ==
  IF currentKillCount >= cfg.maxKillsPerWindow
  THEN [outcome |-> "skipped-safety", reason |-> "", sent |-> FALSE]
  ELSE IF pid \in mp
  THEN [outcome |-> "skipped-safety", reason |-> "managed", sent |-> FALSE]
  ELSE IF cfg.dryRun
  THEN [outcome |-> "dry-run", reason |-> "", sent |-> FALSE]
  ELSE IF fate = "dead"
  THEN [outcome |-> "skipped-safety", reason |-> "dead", sent |-> FALSE]
  ELSE [outcome |-> IF fate = "ok" THEN "killed" ELSE "failed", reason |-> "",
        sent |-> TRUE]

\* executeKill: the action, the signal sent (if any), the changed candidates
executeKill(pid, rule, currentKillCount, mp, cfg, fate, now, cands) ==
  LET k == KillOutcome(pid, currentKillCount, mp, cfg, fate)
  IN [action |-> [timestamp |-> now, targetPid |-> pid, rule |-> rule,
                  reason |-> k.reason, outcome |-> k.outcome],
      signals |-> IF k.sent
                  THEN {[pid |-> pid, managed |-> pid \in mp, dryRun |-> cfg.dryRun,
                         delivered |-> fate = "ok"]}
                  ELSE {},
      candidates |-> IF k.sent THEN [q \in DOMAIN cands \ {pid} |-> cands[q]] ELSE cands]

KilledCount(actions) ==
  Cardinality({i \in 1..Len(actions) : actions[i].outcome = "killed"})

\* a candidate of this cycle is confirmed when the map holds it under the same rule
Confirmed(c, cands) == c.pid \in DOMAIN cands /\ cands[c.pid] = c.rule

RECURSIVE ConfirmLoop(_, _, _, _, _, _, _, _)
\* the 2-cycle confirmation loop over currentCandidates[i..]
ConfirmLoop(cc, i, st, killsInWindow, mp, cfg, fates, now) ==
  IF i > Len(cc) THEN st
  ELSE
    LET c == cc[i]
    IN IF ~Confirmed(c, st.candidates)
       THEN ConfirmLoop(cc, i + 1,
              [st EXCEPT !.candidates =
                 [q \in DOMAIN st.candidates \cup {c.pid} |->
                    IF q = c.pid THEN c.rule ELSE st.candidates[q]]],
              killsInWindow, mp, cfg, fates, now)
       ELSE
         LET e == executeKill(c.pid, c.rule, killsInWindow + KilledCount(st.actions),
                              mp, cfg, fates[c.pid], now, st.candidates)
         IN ConfirmLoop(cc, i + 1,
              [candidates |-> e.candidates,
               actions |-> Append(st.actions, e.action),
               signals |-> st.signals \cup e.signals],
              killsInWindow, mp, cfg, fates, now)

\* evaluate from the confirmation on: confirm, prune, persist, trim
Conclude(cc, cands, log, mp, cfg, fates, now) ==
  LET st == ConfirmLoop(cc, 1, [candidates |-> cands, actions |-> <<>>, signals |-> {}],
                        getKillsInWindow(log, cfg, now), mp, cfg, fates, now)
      keep == DOMAIN st.candidates \cap PidsOf(cc)
  IN [candidates |-> [q \in keep |-> st.candidates[q]],
      actions |-> st.actions,
      signals |-> st.signals,
      actionLog |-> Trim(log \o st.actions, LogCap)]

----------------------------------------------------------------------------
(* inferenceFence *)

DEFAULT_STEP_TIMEOUT_MS == 10000
DEFAULT_MAX_CONNECTIONS == 1

DEFAULT_FENCE_CONFIG ==
  [maxConcurrentModels |-> DEFAULT_MAX_CONCURRENT_MODELS,
   vramBudgetMb |-> DEFAULT_FENCE_VRAM_BUDGET_MB,
   promptTimeoutMs |-> PromptTimeoutTicks,
   inferenceStepTimeoutMs |-> DEFAULT_STEP_TIMEOUT_MS,
   maxConnectionsPerModel |-> DEFAULT_MAX_CONNECTIONS]

\* fence updateConfig: { ...config, ...patch }
fenceUpdateConfig(cfg, patch) ==
  [k \in DOMAIN cfg |-> IF k \in DOMAIN patch THEN patch[k] ELSE cfg[k]]

\* processes.filter((p) => p.usedMemoryMb > 4000).length
ActiveModels(cuda) == Cardinality(GpuHogs(cuda.processes))

RECURSIVE ManagedVram(_)
ManagedVram(processes) ==
  IF processes = <<>> THEN 0
  ELSE (IF Head(processes).isManaged THEN Head(processes).usedMemoryMb ELSE 0)
       + ManagedVram(Tail(processes))

\* fence evaluate
fenceEvaluate(cuda, cfg, startedAt, lk, now) ==
  [activeModels |-> ActiveModels(cuda),
   vramUsedMb |-> ManagedVram(cuda.processes),
   vramBudgetMb |-> cfg.vramBudgetMb,
   isOverBudget |-> ManagedVram(cuda.processes) > cfg.vramBudgetMb,
   promptStartedAt |-> startedAt,
   promptTimedOut |-> startedAt # None /\ now - startedAt > cfg.promptTimeoutMs,
   locked |-> lk]

\* resetFence that leaves the lock as it is
resetFence_KeepsLock(startedAt, lk) == [promptStartedAt |-> None, locked |-> lk]

\* resetFence: the changed <<promptStartedAt, locked>>
resetFence(startedAt, lk) == [promptStartedAt |-> None, locked |-> FALSE]

\* acquireLock that grants a held lock again
acquireLock_AlwaysGrants(lk) == [locked |-> TRUE, result |-> TRUE]

\* acquireLock: the changed lock and the value returned
acquireLock(lk) == IF lk THEN [locked |-> lk, result |-> FALSE]
                   ELSE [locked |-> TRUE, result |-> TRUE]

\* canLaunchModel without its look at the lock
canLaunchModel_IgnoresLock(cuda, cfg, lk) ==
  IF ActiveModels(cuda) >= cfg.maxConcurrentModels
  THEN [allowed |-> FALSE, reason |-> "models-loaded"]
  ELSE [allowed |-> TRUE, reason |-> "none"]

\* canLaunchModel; reason "none" is an absent reason
canLaunchModel(cuda, cfg, lk) ==
  IF ActiveModels(cuda) >= cfg.maxConcurrentModels
  THEN [allowed |-> FALSE, reason |-> "models-loaded"]
  ELSE IF lk
  THEN [allowed |-> FALSE, reason |-> "locked"]
  ELSE [allowed |-> TRUE, reason |-> "none"]

----------------------------------------------------------------------------
(* What the tools can answer *)

\* one option per PID of S
Choices(S, opts) ==
  {f \in [S -> UNION {opts[p] : p \in S}] : \A p \in S : f[p] \in opts[p]}

\* nvidia-smi compute-apps rows: a usage per listed PID
GpuRowLists(usage) ==
  UNION {{[i \in 1..Len(SeqOf(S)) |->
             [pid |-> SeqOf(S)[i], usedMemoryMb |-> f[SeqOf(S)[i]]]] :
            f \in Choices(S, usage)} : S \in SUBSET Pids}

\* Win32_Process rows: one row per listed PID
RawLists(rows) ==
  UNION {{[i \in 1..Len(SeqOf(S)) |-> f[SeqOf(S)[i]]] :
            f \in Choices(S, rows)} : S \in SUBSET Pids}

Row(pid, parent, moshi, cpu) ==
  [pid |-> pid, parentPid |-> parent, moshi |-> moshi, cpuSeconds |-> cpu]

SpecUsage == (500 :> {5000}) @@ (600 :> {3000, 6000})

SpecGpuMaps == {<<>>}

Fates == {"ok", "fail", "dead"}

\* a tool whose call failed: execFile rejected or the output did not parse
ToolFailed == [failed |-> TRUE]

\* the same where the tool answers with a list, and where it answers with a map
FailedList == <<ToolFailed>>
FailedMap == (NoPid :> None)

\* the catch blocks of the tool wrappers: a failed call reads as an empty answer
queryGpuInfo(answer) == IF answer = ToolFailed THEN NoGpu ELSE answer
queryGpuProcesses(answer) == IF answer = FailedList THEN <<>> ELSE answer
listPythonProcesses(answer) == IF answer = FailedList THEN <<>> ELSE answer
getGpuPidMemoryMap(answer) == IF answer = FailedMap THEN <<>> ELSE answer

----------------------------------------------------------------------------
(* Initial state: the module-level initialisers *)

IdleEv == [pc |-> "idle", processes |-> <<>>, cuda |-> EmptySnapshot,
           backendPid |-> NoPid, head |-> <<>>]

\* no evaluate() call yet
NoReturn == [calls |-> 0, enabled |-> FALSE, same |-> FALSE, processes |-> <<>>,
             cudaProcs |-> <<>>, cands |-> <<>>, actions |-> <<>>, signals |-> {},
             fates |-> [p \in Pids |-> "ok"]]

\* a request body that JSON.parse rejects
BadBody == [malformed |-> TRUE]

\* no request to guardian/reaper/config yet
NoPost == [n |-> 0, method |-> "", body |-> BadBody, status |-> 0,
           config |-> DEFAULT_REAPER_CONFIG]

\* no request to guardian/kill yet
NoKill == [n |-> 0, method |-> "", pid |-> NoPid, status |-> 0, ok |-> FALSE,
           signals |-> {}]

NoPolls == [process |-> 0, cuda |-> 0]

\* no interval is set
NoIntervals == [process |-> 0, cuda |-> 0]

NoCycle == [failed |-> FALSE, threw |-> FALSE, log |-> <<>>]

NoCycles == [process |-> NoCycle, cuda |-> NoCycle]

\* the FenceStatus of a fence that was never touched, on no GPU data
NoStatus == fenceEvaluate(EmptySnapshot, DEFAULT_FENCE_CONFIG, None, FALSE, 0)

\* backendState as the module is loaded; process and portOwnerPid hold PIDs
StoppedBackend ==
  [process |-> NoPid, killed |-> FALSE, phase |-> "stopped", startedAt |-> None,
   portOwnerPid |-> NoPid]

\* no startBackendProcess call in flight, no child, no PID polling
IdleLauncher == [starting |-> <<>>, children |-> {}, polling |-> {}, probing |-> {}]

NoFenceCall == [n |-> 0, op |-> "", held |-> FALSE, ok |-> FALSE, status |-> NoStatus]

NoLaunch == [called |-> FALSE, processes |-> <<>>, maxConcurrentModels |-> 0,
             locked |-> FALSE, result |-> [allowed |-> FALSE, reason |-> "none"]]

Init ==
  /\ clock = 0
  /\ managedPids = {}
  /\ lastCpuSnapshot = <<>>
  /\ lastCpuAt = None
  /\ staleCycles = <<>>
  /\ latestProcesses = <<>>
  /\ managedBackendPid = NoPid
  /\ latestCuda = EmptySnapshot
  /\ previousSnapshot = EmptySnapshot
  /\ history = <<>>
  /\ vramBudgetMb = DEFAULT_VRAM_BUDGET_MB
  /\ config = DEFAULT_REAPER_CONFIG
  /\ actionLog = <<>>
  /\ candidates = <<>>
  /\ ev = IdleEv
  /\ fenceConfig = DEFAULT_FENCE_CONFIG
  /\ promptStartedAt = None
  /\ locked = FALSE
  /\ scanObs = [p \in Pids |-> 0]
  /\ idleObs = [p \in Pids |-> 0]
  /\ ret = NoReturn
  /\ acted = {}
  /\ recentKills = <<>>
  /\ lastLaunch = NoLaunch
  /\ goneObs = [p \in Pids |-> ""]
  /\ launcher = IdleLauncher
  /\ backendState = StoppedBackend
  /\ fenceCall = NoFenceCall
  /\ cycles = NoCycles
  /\ pending = NoPolls
  /\ cudaTimer = FALSE
  /\ intervals = NoIntervals
  /\ processTimer = FALSE
  /\ running = FALSE
  /\ explicit = {}
  /\ manual = NoKill
  /\ posted = NoPost

----------------------------------------------------------------------------
(* index: registration calls of the launcher *)

Without(m, pid) == [q \in DOMAIN m \ {pid} |-> m[q]]

\* setManagedBackendPid: what the call assigns
Registers(pid) ==
  /\ managedBackendPid' = pid
  /\ managedPids' = RegisterManagedPid(managedPids, staleCycles, pid).managedPids
  /\ staleCycles' = RegisterManagedPid(managedPids, staleCycles, pid).staleCycles
  /\ scanObs' = [scanObs EXCEPT ![pid] = 0]
  /\ idleObs' = [idleObs EXCEPT ![pid] = 0]
  /\ explicit' = explicit \cup {pid}
  /\ UNCHANGED <<lastCpuSnapshot, lastCpuAt, latestProcesses>>

\* clearManagedBackendPid without the reset of managedBackendPid
Unregisters_KeepsBackend(pid) ==
  /\ managedBackendPid' = managedBackendPid
  /\ managedPids' = managedPids \ {pid}
  /\ lastCpuSnapshot' = Without(lastCpuSnapshot, pid)
  /\ lastCpuAt' = IF DOMAIN Without(lastCpuSnapshot, pid) = {} THEN None ELSE lastCpuAt
  /\ staleCycles' = Without(staleCycles, pid)
  /\ scanObs' = [scanObs EXCEPT ![pid] = 0]
  /\ idleObs' = [idleObs EXCEPT ![pid] = 0]
  /\ explicit' = explicit \ {pid}
  /\ UNCHANGED latestProcesses

\* clearManagedBackendPid, with unregisterManagedPid: what the call assigns
Unregisters(pid) ==
  /\ managedBackendPid' = IF managedBackendPid = pid THEN NoPid ELSE managedBackendPid
  /\ managedPids' = managedPids \ {pid}
  /\ lastCpuSnapshot' = Without(lastCpuSnapshot, pid)
  /\ lastCpuAt' = IF DOMAIN Without(lastCpuSnapshot, pid) = {} THEN None ELSE lastCpuAt
  /\ staleCycles' = Without(staleCycles, pid)
  /\ scanObs' = [scanObs EXCEPT ![pid] = 0]
  /\ idleObs' = [idleObs EXCEPT ![pid] = 0]
  /\ explicit' = explicit \ {pid}
  /\ UNCHANGED latestProcesses

\* setManagedBackendPid
SetManagedBackendPid(pid) ==
  /\ Registers(pid)
  /\ UNCHANGED <<clock, monitorVars, reaperVars, fenceVars, callObs, daemonVars,
                 pollObs, launcherVars, goneObs>>

\* clearManagedBackendPid
ClearManagedBackendPid(pid) ==
  /\ Unregisters(pid)
  /\ UNCHANGED <<clock, monitorVars, reaperVars, fenceVars, callObs, daemonVars,
                 pollObs, launcherVars, goneObs>>

\* registerChildPid
RegisterChildPid(pid) ==
  /\ managedPids' = RegisterManagedPid(managedPids, staleCycles, pid).managedPids
  /\ staleCycles' = RegisterManagedPid(managedPids, staleCycles, pid).staleCycles
  /\ scanObs' = [scanObs EXCEPT ![pid] = 0]
  /\ idleObs' = [idleObs EXCEPT ![pid] = 0]
  /\ explicit' = explicit \cup {pid}
  /\ UNCHANGED <<clock, managedBackendPid, lastCpuSnapshot, lastCpuAt, latestProcesses,
                 monitorVars, reaperVars, fenceVars, callObs, daemonVars, pollObs,
                 launcherVars, goneObs>>

----------------------------------------------------------------------------
(* index: the daemon's lifecycle and its timers *)

\* clearInterval(handle) clears one interval when the handle is set
BoolToNat(b) == IF b THEN 1 ELSE 0

\* start without the test of `running`
Start_NoGuard ==
  /\ pending.process < MaxPending /\ pending.cuda < MaxPending
  /\ running' = TRUE
  /\ processTimer' = TRUE
  /\ cudaTimer' = TRUE
  /\ intervals' = [process |-> intervals.process + 1, cuda |-> intervals.cuda + 1]
  /\ pending' = [process |-> pending.process + 1, cuda |-> pending.cuda + 1]
  /\ UNCHANGED <<clock, managedPids, managedBackendPid, trackerVars, monitorVars,
                 reaperVars, fenceVars, callObs, explicit, cycles, launcherVars,
                 goneObs>>

\* start: the two polls are called at once, then the intervals are set
Start ==
  /\ IF running
     THEN UNCHANGED <<daemonVars, pending>>
     ELSE /\ pending.process < MaxPending /\ pending.cuda < MaxPending
          /\ running' = TRUE
          /\ processTimer' = TRUE
          /\ cudaTimer' = TRUE
          /\ intervals' = [process |-> intervals.process + 1,
                           cuda |-> intervals.cuda + 1]
          /\ pending' = [process |-> pending.process + 1, cuda |-> pending.cuda + 1]
  /\ UNCHANGED <<clock, managedPids, managedBackendPid, trackerVars, monitorVars,
                 reaperVars, fenceVars, callObs, explicit, cycles, launcherVars,
                 goneObs>>

\* stop: the intervals are cleared
Stop ==
  /\ IF ~running
     THEN UNCHANGED daemonVars
     ELSE /\ running' = FALSE
          /\ processTimer' = FALSE
          /\ cudaTimer' = FALSE
          /\ intervals' = [process |-> intervals.process - BoolToNat(processTimer),
                           cuda |-> intervals.cuda - BoolToNat(cudaTimer)]
  /\ UNCHANGED <<clock, managedPids, managedBackendPid, trackerVars, monitorVars,
                 reaperVars, fenceVars, callObs, explicit, pollObs, launcherVars,
                 goneObs>>

\* the process-poll interval fires: runProcessPoll is called
ProcessTimerFires ==
  /\ intervals.process > 0
  /\ pending.process < MaxPending
  /\ pending' = [pending EXCEPT !.process = @ + 1]
  /\ UNCHANGED <<clock, managedPids, managedBackendPid, trackerVars, monitorVars,
                 reaperVars, fenceVars, callObs, explicit, daemonVars, cycles,
                 launcherVars, goneObs>>

\* the GPU-poll interval fires: runCudaPoll is called
CudaTimerFires ==
  /\ intervals.cuda > 0
  /\ pending.cuda < MaxPending
  /\ pending' = [pending EXCEPT !.cuda = @ + 1]
  /\ UNCHANGED <<clock, managedPids, managedBackendPid, trackerVars, monitorVars,
                 reaperVars, fenceVars, callObs, explicit, daemonVars, cycles,
                 launcherVars, goneObs>>

----------------------------------------------------------------------------
(* index: manual kill *)

\* safeKillPid: process.kill(pid) returned (true) or threw (false)
safeKillPid(fate) == fate = "ok"

\* manualKill without its look at the registry
manualKill_NoRegistryCheck(pid, mp, fate) ==
  [success |-> safeKillPid(fate),
   signals |-> {[pid |-> pid, delivered |-> fate = "ok"]}]

\* manualKill: the result and the signal sent (if any)
manualKill(pid, mp, fate) ==
  IF pid \in mp
  THEN [success |-> FALSE, signals |-> {}]
  ELSE [success |-> safeKillPid(fate),
        signals |-> {[pid |-> pid, delivered |-> fate = "ok"]}]

\* the handler of guardian/kill: 405 for another method, 400 for a body without
\* a numeric pid, else manualKill and its result in the answer
PostKill(methods, pids, fateSet) ==
  /\ \E method \in methods, pid \in pids, fate \in fateSet :
       LET n == IF manual.n = 1 THEN 2 ELSE 1
           r == manualKill(pid, managedPids, fate)
       IN manual' =
            IF method # "POST"
            THEN [n |-> n, method |-> method, pid |-> pid, status |-> 405, ok |-> FALSE,
                  signals |-> {}]
            ELSE IF pid = NoPid
            THEN [n |-> n, method |-> method, pid |-> pid, status |-> 400, ok |-> FALSE,
                  signals |-> {}]
            ELSE [n |-> n, method |-> method, pid |-> pid, status |-> 200,
                  ok |-> r.success, signals |-> r.signals]
  /\ UNCHANGED <<clock, managedPids, managedBackendPid, trackerVars, monitorVars,
                 reaperVars, fenceVars, posted, fenceCall, explicit, daemonVars,
                 pollObs, launcherVars, goneObs>>

----------------------------------------------------------------------------
(* index: the process poll *)

\* the observer's count of consecutive scans that list pid, unmanaged, with its
\* parent missing from the scan; it stops counting at 3 and starts again when
\* the PID is registered or unregistered
ObserveScan(obs, raws, mp) ==
  [p \in Pids |->
     IF p \in PidsOf(raws) /\ p \notin mp
        /\ raws[Find(raws, p)].parentPid \notin PidsOf(raws)
     THEN (IF obs[p] < 3 THEN obs[p] + 1 ELSE 3)
     ELSE 0]

\* the observer's count of consecutive scans that list pid, unmanaged, with
\* more than 500 MB on the GPU and a CPU activity of at most 1 %; it stops
\* counting at 3 and starts again when the PID is registered or unregistered
ObserveIdle(obs, processes, mp) ==
  [p \in Pids |->
     IF /\ p \in PidsOf(processes) /\ p \notin mp
        /\ processes[Find(processes, p)].gpuMemoryMb # None
        /\ processes[Find(processes, p)].gpuMemoryMb > 500
        /\ processes[Find(processes, p)].cpuPercent <= 1
     THEN (IF obs[p] < 3 THEN obs[p] + 1 ELSE 3)
     ELSE 0]

\* the children runProcessPoll registers
AutoChildren(processes, backendPid, mp) ==
  IF backendPid = NoPid THEN {}
  ELSE {processes[i].pid : i \in {j \in 1..Len(processes) :
          processes[j].parentPid = backendPid /\ processes[j].pid \notin mp}}

\* a line of guardianLog: its text and the PID it names
Line(text, pid) == [line |-> text, pid |-> pid]

\* the poll of a kind that returns is no longer in flight
Returned(kind) == [pending EXCEPT ![kind] = IF @ > 0 THEN @ - 1 ELSE 0]

\* the lines registerChildPid logs for the children of the loop, in scan order
ChildLines(processes, kids) ==
  LET sel == SelectSeqBy(processes, kids)
  IN [i \in 1..Len(sel) |-> Line("Registered managed child PID", sel[i].pid)]

\* a PID that holds a candidate entry and that the scan before listed and this
\* one does not is gone; a PID that was gone and is listed is back
ObserveGone(obs, before, raws, cands) ==
  [p \in Pids |->
     IF p \in (PidsOf(before) \ PidsOf(raws)) \cap DOMAIN cands THEN "gone"
     ELSE IF obs[p] = "gone" /\ p \in PidsOf(raws) THEN "back"
     ELSE obs[p]]

\* runProcessPoll, on the answers of the two tools
RunProcessPoll(rawLists, gpuMaps) ==
  \E rawAnswer \in rawLists, mapAnswer \in gpuMaps :
    LET raws == listPythonProcesses(rawAnswer)
        gpuMap == getGpuPidMemoryMap(mapAnswer)
        r == scanProcesses(raws, gpuMap, managedPids, lastCpuSnapshot, staleCycles,
                           clock, lastCpuAt)
        kids == AutoChildren(r.result, managedBackendPid, managedPids)
    IN /\ latestProcesses' = r.result
       /\ pending' = Returned("process")
       /\ cycles' = [cycles EXCEPT !.process =
                       [failed |-> rawAnswer = FailedList \/ mapAnswer = FailedMap,
                        threw |-> FALSE,
                        log |-> ChildLines(r.result, kids)]]
       /\ lastCpuSnapshot' = r.lastCpuSnapshot
       /\ lastCpuAt' = IF DOMAIN r.lastCpuSnapshot = {} THEN None ELSE clock
       /\ managedPids' = managedPids \cup kids
       /\ staleCycles' = [q \in DOMAIN r.staleCycles \ kids |-> r.staleCycles[q]]
       /\ scanObs' = ObserveScan(scanObs, raws, managedPids \cup kids)
       /\ idleObs' = ObserveIdle(idleObs, r.result, managedPids \cup kids)
       /\ goneObs' = ObserveGone(goneObs, latestProcesses, raws, candidates)
       /\ UNCHANGED <<clock, managedBackendPid, monitorVars, reaperVars, fenceVars,
                      callObs, explicit, daemonVars, launcherVars>>

----------------------------------------------------------------------------
(* index: the GPU poll, with the Reaper evaluation inside it *)

KilledPids(actions) ==
  {actions[i].targetPid : i \in {j \in 1..Len(actions) : actions[j].outcome = "killed"}}

KillTimes(actions) ==
  LET k == {j \in 1..Len(actions) : actions[j].outcome = "killed"}
  IN [i \in 1..Cardinality(k) |-> actions[Min(k)].timestamp]

\* the observer counts calls 1, 2, 1, 2, ...
NextCall == IF ret.calls = 1 THEN 2 ELSE 1

\* PIDs killed earlier while evaluate kept getting the same snapshot pair
SamePair(processes, cuda) ==
  ret.calls > 0 /\ ret.processes = processes /\ ret.cudaProcs = cuda.processes

PriorKilled(processes, cuda) == IF SamePair(processes, cuda) THEN acted ELSE {}

\* evaluate returning [] at once: the Reaper is disabled
EvaluateDisabled(processes, cuda) ==
  /\ ret' = [NoReturn EXCEPT !.calls = NextCall, !.processes = processes,
                             !.cudaProcs = cuda.processes,
                             !.same = SamePair(processes, cuda)]
  /\ acted' = PriorKilled(processes, cuda)
  /\ UNCHANGED <<config, actionLog, candidates, ev, recentKills, goneObs>>

\* the observer forgets the entries that evaluate wrote anew or deleted
StillOld(obs, cc, cands, after) ==
  [p \in Pids |->
     IF /\ p \in DOMAIN after
        /\ \E i \in 1..Len(cc) : cc[i].pid = p /\ Confirmed(cc[i], cands)
     THEN obs[p] ELSE ""]

\* evaluate from rule 4 to its return; cc3 is currentCandidates after rule 3
EvaluateFinish(processes, cuda, cc3, fateSet) ==
  LET cc == RuleHog(RuleStale(cc3, processes, managedPids, config), processes, cuda, config)
      asked == {cc[i].pid : i \in {j \in 1..Len(cc) :
                   Confirmed(cc[j], candidates) /\ cc[j].pid \notin managedPids
                   /\ ~config.dryRun}}
  IN \E answer \in [asked -> fateSet] :
       LET fates == [p \in Pids |-> IF p \in asked THEN answer[p] ELSE "ok"]
           r == Conclude(cc, candidates, actionLog, managedPids, config, fates, clock)
       IN /\ candidates' = r.candidates
          /\ actionLog' = r.actionLog
          /\ ev' = IdleEv
          /\ ret' = [calls |-> NextCall, enabled |-> TRUE,
                     same |-> SamePair(processes, cuda), processes |-> processes,
                     cudaProcs |-> cuda.processes, cands |-> cc,
                     actions |-> r.actions, signals |-> r.signals, fates |-> fates]
          /\ acted' = PriorKilled(processes, cuda) \cup KilledPids(r.actions)
          /\ recentKills' = Trim(recentKills \o KillTimes(r.actions),
                                 config.maxKillsPerWindow + 1)
          /\ goneObs' = StillOld(goneObs, cc, candidates, r.candidates)
          /\ UNCHANGED config

\* the lines runCudaPoll logs for the actions evaluate returned
ReaperLines(actions) ==
  [i \in 1..Len(actions) |-> Line("REAPER", actions[i].targetPid)]

\* the warnings runCudaPoll logs for a FenceStatus
FenceLines(status) ==
  (IF status.isOverBudget THEN <<Line("FENCE Warning: VRAM", NoPid)>> ELSE <<>>)
  \o (IF status.promptTimedOut THEN <<Line("FENCE Warning: Prompt", NoPid)>> ELSE <<>>)

\* config.rules is null: reading a rule of it throws a TypeError
NullRules == [null |-> TRUE]

EvaluateThrows == config.enabled /\ config.rules = NullRules

\* runCudaPoll after evaluate returned: the log lines, the fence evaluation, return
CudaPollReturns(failed, cuda) ==
  /\ pending' = Returned("cuda")
  /\ cycles' = [cycles EXCEPT !.cuda =
                  [failed |-> failed, threw |-> FALSE,
                   log |-> ReaperLines(ret'.actions)
                           \o FenceLines(fenceEvaluate(cuda, fenceConfig, promptStartedAt,
                                                       locked, clock))]]

\* runCudaPoll when evaluate throws: the catch block logs and the poll returns
CudaPollCatches(failed) ==
  /\ pending' = Returned("cuda")
  /\ cycles' = [cycles EXCEPT !.cuda =
                  [failed |-> failed, threw |-> TRUE,
                   log |-> <<Line("CUDA poll error", NoPid)>>]]
  /\ UNCHANGED <<reaperVars, goneObs>>

\* runCudaPoll up to the first suspension of evaluate: pollCuda resolves, evaluate
\* runs rules 1 and 2 and, with rule 3 on, suspends at getPortOwner
RunCudaPoll(gpuInfos, rowLists, fateSet) ==
  /\ ev.pc = "idle"
  /\ \E gpuAnswer \in gpuInfos, rowAnswer \in rowLists :
       LET gpu == queryGpuInfo(gpuAnswer)
           rows == queryGpuProcesses(rowAnswer)
           failed == gpuAnswer = ToolFailed \/ rowAnswer = FailedList
           p == pollCuda(gpu, rows, managedPids, previousSnapshot, history,
                         vramBudgetMb, clock)
           cuda == p.snapshot
           head == RuleDuplicate(RuleOrphan(<<>>, latestProcesses, managedPids, config),
                                 cuda, config)
       IN /\ latestCuda' = cuda
          /\ previousSnapshot' = cuda
          /\ history' = p.history
          /\ IF ~config.enabled
             THEN /\ EvaluateDisabled(latestProcesses, cuda)
                  /\ CudaPollReturns(failed, cuda)
             ELSE IF EvaluateThrows
             THEN CudaPollCatches(failed)
             ELSE IF RuleOn(config, "port-squatter")
             THEN /\ ev' = [pc |-> "port", processes |-> latestProcesses, cuda |-> cuda,
                            backendPid |-> managedBackendPid, head |-> head]
                  /\ cycles' = [cycles EXCEPT !.cuda =
                                  [failed |-> failed, threw |-> FALSE, log |-> <<>>]]
                  /\ UNCHANGED <<config, actionLog, candidates, ret, acted, recentKills,
                                 pending, goneObs>>
             ELSE /\ EvaluateFinish(latestProcesses, cuda, head, fateSet)
                  /\ CudaPollReturns(failed, cuda)
  /\ UNCHANGED <<clock, managedPids, managedBackendPid, trackerVars, vramBudgetMb,
                 fenceVars, callObs, explicit, daemonVars, launcherVars>>

\* evaluate resumed with the answer of getPortOwner(8998)
EvaluateResume(owners, fateSet) ==
  /\ ev.pc = "port"
  /\ \E portOwner \in owners :
       EvaluateFinish(ev.processes, ev.cuda,
                      RuleSquatter(ev.head, portOwner, ev.backendPid, managedPids),
                      fateSet)
  /\ CudaPollReturns(cycles.cuda.failed, latestCuda)
  /\ UNCHANGED <<clock, managedPids, managedBackendPid, trackerVars, monitorVars,
                 fenceVars, callObs, explicit, daemonVars, launcherVars>>

\* the tools of a process poll that is in flight answer
ProcessPollResolves(rawLists, gpuMaps) ==
  pending.process > 0 /\ RunProcessPoll(rawLists, gpuMaps)

\* the tools of a GPU poll that is in flight answer
CudaPollResolves(gpuInfos, rowLists, fateSet) ==
  pending.cuda > 0 /\ RunCudaPoll(gpuInfos, rowLists, fateSet)

----------------------------------------------------------------------------
(* zombieReaper: POST guardian/reaper/config *)

AllRules(b) == [r \in RuleNames |-> b]

\* the patches the model sends
ReaperPatches ==
  {[enabled |-> b] : b \in BOOLEAN}
  \cup {[dryRun |-> b] : b \in BOOLEAN}
  \cup {[rules |-> AllRules(TRUE)],
        [rules |-> [AllRules(TRUE) EXCEPT !["port-squatter"] = FALSE]],
        [rules |-> ("port-squatter" :> FALSE)]}

UpdateConfig(patches) ==
  /\ \E patch \in patches : config' = updateConfig(config, patch)
  /\ UNCHANGED <<clock, managedPids, managedBackendPid, trackerVars, monitorVars,
                 actionLog, candidates, ev, ret, acted, recentKills, fenceVars, callObs,
                 explicit, daemonVars, pollObs, launcherVars, goneObs>>

\* the handler of guardian/reaper/config: 405 for another method, 400 for a body
\* that does not parse, else updateConfig and the updated config in the answer
PostReaperConfig(methods, bodies) ==
  /\ \E method \in methods, body \in bodies :
       LET n == IF posted.n = 1 THEN 2 ELSE 1
       IN IF method # "POST"
          THEN /\ posted' = [n |-> n, method |-> method, body |-> body, status |-> 405,
                             config |-> DEFAULT_REAPER_CONFIG]
               /\ UNCHANGED config
          ELSE IF body = BadBody
          THEN /\ posted' = [n |-> n, method |-> method, body |-> body, status |-> 400,
                             config |-> DEFAULT_REAPER_CONFIG]
               /\ UNCHANGED config
          ELSE /\ config' = updateConfig(config, body)
               /\ posted' = [n |-> n, method |-> method, body |-> body, status |-> 200,
                             config |-> getConfig(updateConfig(config, body))]
  /\ UNCHANGED <<clock, managedPids, managedBackendPid, trackerVars, monitorVars,
                 actionLog, candidates, ev, ret, acted, recentKills, fenceVars, manual,
                 fenceCall, explicit, daemonVars, pollObs, launcherVars, goneObs>>

\* time passes
Tick ==
  /\ clock < MaxClock
  /\ clock' = clock + 1
  /\ UNCHANGED <<managedPids, managedBackendPid, trackerVars, monitorVars, reaperVars,
                 fenceVars, callObs, explicit, daemonVars, pollObs, launcherVars,
                 goneObs>>

----------------------------------------------------------------------------
(* inferenceFence: the exported calls *)

FenceUpdateConfig(patches) ==
  /\ \E patch \in patches : fenceConfig' = fenceUpdateConfig(fenceConfig, patch)
  /\ UNCHANGED <<clock, managedPids, managedBackendPid, trackerVars, monitorVars,
                 reaperVars, promptStartedAt, locked, lastLaunch, callObs, explicit,
                 daemonVars, pollObs, launcherVars, goneObs>>

\* the observer's record of a call: calls are counted 1, 2, 1, 2, ...; held is
\* the lock as the call found it
FenceCalled(op, ok, status) ==
  [n |-> IF fenceCall.n = 1 THEN 2 ELSE 1, op |-> op, held |-> locked, ok |-> ok,
   status |-> status]

FenceFrame ==
  UNCHANGED <<clock, managedPids, managedBackendPid, trackerVars, monitorVars,
              reaperVars, fenceConfig, lastLaunch, posted, manual, explicit, daemonVars,
              pollObs, launcherVars, goneObs>>

ResetFence ==
  /\ promptStartedAt' = resetFence(promptStartedAt, locked).promptStartedAt
  /\ locked' = resetFence(promptStartedAt, locked).locked
  /\ fenceCall' = FenceCalled("resetFence", TRUE, NoStatus)
  /\ FenceFrame

MarkPromptStarted ==
  /\ promptStartedAt' = clock
  /\ fenceCall' = FenceCalled("markPromptStarted", TRUE, NoStatus)
  /\ UNCHANGED locked
  /\ FenceFrame

MarkPromptFinished ==
  /\ promptStartedAt' = None
  /\ fenceCall' = FenceCalled("markPromptFinished", TRUE, NoStatus)
  /\ UNCHANGED locked
  /\ FenceFrame

\* acquireLock: a locked fence stays as it is and the call returns false
AcquireLock ==
  /\ locked' = acquireLock(locked).locked
  /\ fenceCall' = FenceCalled("acquireLock", acquireLock(locked).result, NoStatus)
  /\ UNCHANGED promptStartedAt
  /\ FenceFrame

ReleaseLock ==
  /\ locked' = FALSE
  /\ fenceCall' = FenceCalled("releaseLock", TRUE, NoStatus)
  /\ UNCHANGED promptStartedAt
  /\ FenceFrame

\* GET guardian/fence/status: getStatus().fence, the fence evaluated on the caches
\* an evaluate that takes the lock and restarts the prompt window
GetFenceStatus_Writes ==
  /\ fenceCall' = FenceCalled("evaluate", TRUE,
                              fenceEvaluate(latestCuda, fenceConfig, promptStartedAt,
                                            locked, clock))
  /\ promptStartedAt' = clock
  /\ locked' = TRUE
  /\ FenceFrame

GetFenceStatus ==
  /\ fenceCall' = FenceCalled("evaluate", TRUE,
                              fenceEvaluate(latestCuda, fenceConfig, promptStartedAt,
                                            locked, clock))
  /\ UNCHANGED <<promptStartedAt, locked>>
  /\ FenceFrame

\* canLaunchModel(cudaSnapshot) on a snapshot of the caller; lastLaunch keeps the
\* call and its result
CanLaunchModel(rowLists) ==
  /\ \E rows \in rowLists :
       LET cuda == [EmptySnapshot EXCEPT !.processes = StampManaged(rows, managedPids)]
       IN lastLaunch' = [called |-> TRUE, processes |-> cuda.processes,
                         maxConcurrentModels |-> fenceConfig.maxConcurrentModels,
                         locked |-> locked,
                         result |-> canLaunchModel(cuda, fenceConfig, locked)]
  /\ UNCHANGED <<clock, managedPids, managedBackendPid, trackerVars, monitorVars,
                 reaperVars, fenceConfig, promptStartedAt, locked, callObs, explicit,
                 daemonVars, pollObs, launcherVars, goneObs>>

----------------------------------------------------------------------------
(* vite.config: the launcher of the backend.  A startBackendProcess call waits
   for the owner of port 8998, and after a reclaiming kill for the owner once
   more; each in-flight call is a record of launcher.starting.  spawn yields a
   child with a PID that no live child has. *)

\* the PIDs the system gives to backend children
SpawnPids == Pids

RemoveAt(seq, i) == [k \in 1..(Len(seq) - 1) |-> IF k < i THEN seq[k] ELSE seq[k + 1]]

BackendRunning == backendState.process # NoPid /\ ~backendState.killed

LauncherFrame ==
  UNCHANGED <<clock, monitorVars, reaperVars, fenceVars, callObs, daemonVars, pollObs,
              goneObs>>

RegistryFrame ==
  UNCHANGED <<managedPids, managedBackendPid, trackerVars, explicit>>

\* startBackendProcess up to reclaimBackendPort's first await
StartBackendProcess ==
  /\ IF BackendRunning
     THEN UNCHANGED launcher
     ELSE /\ Len(launcher.starting) < MaxStarts
          /\ launcher' = [launcher EXCEPT !.starting =
                            Append(@, [pc |-> "owner", currentPid |-> backendState.process,
                                       ownerPid |-> NoPid])]
  /\ UNCHANGED backendState
  /\ RegistryFrame
  /\ LauncherFrame

\* startBackendProcess from `backendState.logs = []` on: spawn, the registration
\* of the child and its PID polling interval
Spawns(i) ==
  \E child \in SpawnPids \ launcher.children :
    /\ backendState' = [process |-> child, killed |-> FALSE, phase |-> "starting",
                        startedAt |-> clock, portOwnerPid |-> NoPid]
    /\ Registers(child)
    /\ launcher' = [launcher EXCEPT !.starting = RemoveAt(@, i),
                                    !.children = @ \cup {child},
                                    !.polling = @ \cup {child}]

\* startBackendProcess returning port-in-use
PortInUse(i, ownerPid) ==
  /\ backendState' = [backendState EXCEPT !.phase = "port_in_use",
                                          !.portOwnerPid = ownerPid]
  /\ launcher' = [launcher EXCEPT !.starting = RemoveAt(@, i)]
  /\ RegistryFrame

\* reclaimBackendPort: the owner of the port is known
ReclaimOwnerResolves(owners, fateSet) ==
  /\ \E i \in 1..Len(launcher.starting), ownerPid \in owners, fate \in fateSet :
       LET call == launcher.starting[i] IN
       /\ call.pc = "owner"
       /\ IF ownerPid = NoPid
          THEN Spawns(i)
          ELSE IF (call.currentPid # NoPid /\ ownerPid = call.currentPid) \/ fate # "ok"
          THEN PortInUse(i, ownerPid)
          ELSE /\ backendState' = [backendState EXCEPT !.portOwnerPid = ownerPid]
               /\ launcher' = [launcher EXCEPT !.starting[i] =
                                 [call EXCEPT !.pc = "still", !.ownerPid = ownerPid]]
               /\ RegistryFrame
  /\ LauncherFrame

\* reclaimBackendPort: 600 ms after the kill the owner of the port is known again
ReclaimStillResolves(owners) ==
  /\ \E i \in 1..Len(launcher.starting), stillOwnedBy \in owners :
       /\ launcher.starting[i].pc = "still"
       /\ IF stillOwnedBy = NoPid THEN Spawns(i) ELSE PortInUse(i, stillOwnedBy)
  /\ LauncherFrame

\* the callback of a child's pidPollingInterval up to its await; one query per
\* child is in flight
PidPollingFires ==
  /\ \E child \in launcher.polling \ launcher.probing :
       launcher' = IF BackendRunning
                   THEN [launcher EXCEPT !.probing = @ \cup {child}]
                   ELSE [launcher EXCEPT !.polling = @ \ {child}]
  /\ UNCHANGED backendState
  /\ RegistryFrame
  /\ LauncherFrame

\* the callback of a child's pidPollingInterval after its await
PidPollingResolves(owners) ==
  /\ \E child \in launcher.probing, ownerPid \in owners :
       IF ownerPid # NoPid /\ ownerPid # child
       THEN /\ backendState' = [backendState EXCEPT !.portOwnerPid = ownerPid]
            /\ Registers(ownerPid)
            /\ launcher' = [launcher EXCEPT !.probing = @ \ {child},
                                            !.polling = @ \ {child}]
       ELSE /\ launcher' = [launcher EXCEPT !.probing = @ \ {child}]
            /\ UNCHANGED backendState
            /\ RegistryFrame
  /\ LauncherFrame

\* the `exit` handlers of a child
BackendExits ==
  /\ \E child \in launcher.children :
       /\ Unregisters(child)
       /\ launcher' = [launcher EXCEPT !.children = @ \ {child}, !.polling = @ \ {child}]
  /\ backendState' = [StoppedBackend EXCEPT !.startedAt = backendState.startedAt]
  /\ LauncherFrame

\* the lines of the backend's output that detectPhase knows, and one it does not
LogLines ==
  {"loading mimi", "mimi loaded", "loading moshi", "moshi loaded",
   "warming up the model", "running on http://", "other"}

\* detectPhase: the phase after a line of output
detectPhase(phase, line) ==
  IF line = "loading mimi" THEN "loading_mimi"
  ELSE IF line = "mimi loaded" THEN "mimi_loaded"
  ELSE IF line = "loading moshi" THEN "loading_moshi"
  ELSE IF line = "moshi loaded" THEN "moshi_loaded"
  ELSE IF line = "warming up the model" THEN "warming_up_model"
  ELSE IF line = "running on http://" THEN "serving"
  ELSE phase

\* handleChunk: a child writes a line to stdout or stderr
BackendOutput(lines) ==
  /\ launcher.children # {}
  /\ \E line \in lines :
       backendState' = [backendState EXCEPT !.phase = detectPhase(@, line)]
  /\ UNCHANGED launcher
  /\ RegistryFrame
  /\ LauncherFrame

\* safeStopBackend
SafeStopBackend ==
  /\ backendState' = IF backendState.process = NoPid THEN backendState
                     ELSE [backendState EXCEPT !.killed = TRUE]
  /\ UNCHANGED launcher
  /\ RegistryFrame
  /\ LauncherFrame

----------------------------------------------------------------------------
(* Spec: the Reaper with the registry.  Evaluations do not overlap: a GPU poll
   starts when the evaluation of the one before has returned. *)

\* nobody listens on the port
NoOwner == {NoPid}

Delivered == {"ok"}

Next ==
  \/ \E pid \in Pids : SetManagedBackendPid(pid)
  \/ \E pid \in Pids : ClearManagedBackendPid(pid)
  \/ \E pid \in Pids : RegisterChildPid(pid)
  \/ RunCudaPoll({NoGpu}, GpuRowLists(SpecUsage), Delivered)
  \/ EvaluateResume(NoOwner, Delivered)

Spec == Init /\ [][Next]_vars

----------------------------------------------------------------------------
(* C1: the Reaper never sends a termination signal to, and never records a
   `killed` action for, a PID that is in the managed registry when the signal
   would be sent. *)

C1_NeverKillsManaged ==
  /\ \A s \in ret.signals : ~s.managed
  /\ \A i \in 1..Len(ret.actions) :
       ret.actions[i].outcome = "killed"
         => \E s \in ret.signals : s.pid = ret.actions[i].targetPid /\ ~s.managed

\* a cycle that skipped a confirmed, registered candidate and killed another one
C1_Witness ==
  /\ \E i \in 1..Len(ret.actions) :
       ret.actions[i].outcome = "skipped-safety" /\ ret.actions[i].reason = "managed"
  /\ \E i \in 1..Len(ret.actions) : ret.actions[i].outcome = "killed"

----------------------------------------------------------------------------
(* ConfigSpec: the Reaper with its configuration switched while it runs *)

SwitchPatches ==
  {[enabled |-> b] : b \in BOOLEAN} \cup {[dryRun |-> b] : b \in BOOLEAN}

\* two model-sized GPU processes, each present or not
TwoModels == (500 :> {5000}) @@ (600 :> {6000})

ConfigNext ==
  \/ UpdateConfig(SwitchPatches)
  \/ \E pid \in Pids : RegisterChildPid(pid)
  \/ RunCudaPoll({NoGpu}, GpuRowLists(TwoModels), Delivered)
  \/ EvaluateResume(NoOwner, Delivered)

ConfigSpec == Init /\ [][ConfigNext]_vars

\* a step in which a call of evaluate returns
Returns == ret'.calls # ret.calls

ActionsFor(actions, pid) == {i \in 1..Len(actions) : actions[i].targetPid = pid}

(* C2: an action for PID p in evaluation cycle n requires p to have been a
   candidate under the same rule in cycle n-1; a candidate of one cycle that is
   no candidate in the next gets no action and leaves the candidate set.
   ret is the call before, ret' the call that returns. *)
C2_TwoConsecutiveCycles ==
  [][Returns =>
       /\ \A i \in 1..Len(ret'.actions) :
            \E j \in 1..Len(ret.cands) :
               /\ ret.cands[j].pid = ret'.actions[i].targetPid
               /\ ret.cands[j].rule = ret'.actions[i].rule
       /\ \A p \in PidsOf(ret.cands) \ PidsOf(ret'.cands) :
            ActionsFor(ret'.actions, p) = {} /\ p \notin DOMAIN candidates']_vars

(* C4: while dryRun is true no termination is invoked, and every confirmed
   candidate that is neither stopped by the circuit breaker nor managed gets an
   action with outcome `dry-run`. *)
C4_DryRun ==
  [][(Returns /\ ret'.enabled /\ config.dryRun) =>
       /\ ret'.signals = {}
       /\ \A i \in 1..Len(ret'.cands) :
            (/\ Confirmed(ret'.cands[i], candidates)
             /\ ret'.cands[i].pid \notin managedPids
             /\ getKillsInWindow(actionLog, config, clock) < config.maxKillsPerWindow)
            => \E j \in ActionsFor(ret'.actions, ret'.cands[i].pid) :
                  ret'.actions[j].outcome = "dry-run"]_vars

\* a cycle in dry-run mode that logged a `dry-run` action and skipped a managed PID
C4_Witness ==
  /\ config.dryRun /\ ret.enabled
  /\ \E i \in 1..Len(ret.actions) : ret.actions[i].outcome = "dry-run"
  /\ \E i \in 1..Len(ret.actions) : ret.actions[i].outcome = "skipped-safety"

----------------------------------------------------------------------------
(* WindowSpec: the Reaper over time, with every answer of the OS to a kill *)

WindowNext ==
  \/ Tick
  \/ RunCudaPoll({NoGpu}, GpuRowLists(TwoModels), Fates)
  \/ EvaluateResume(NoOwner, Fates)

WindowSpec == Init /\ [][WindowNext]_vars

\* the kills of the last windowMs, from the observer's record of kill times
KillsInWindow ==
  Cardinality({i \in 1..Len(recentKills) : recentKills[i] > clock - config.windowMs})

(* C3: at every time t the actions with outcome `killed` and a timestamp in
   (t - windowMs, t] are at most maxKillsPerWindow, whatever else was logged in
   between. *)
C3_KillsPerWindow == KillsInWindow <= config.maxKillsPerWindow

(* C5: evaluate called again with the same process snapshot and GPU snapshot
   kills no PID a second time and emits no action of any outcome for a PID it
   has killed.  acted holds the PIDs killed while the snapshot pair stayed the
   same. *)
C5_Idempotent ==
  [][Returns =>
       \A p \in (IF ret'.same THEN acted ELSE {}) :
          ActionsFor(ret'.actions, p) = {}]_vars

----------------------------------------------------------------------------
(* TrackerSpec: the process poll with the registry *)

\* 500 was started from a shell that is gone; 600 is its child or another orphan
TrackerRows == (500 :> {Row(500, OtherPid, TRUE, 0)})
            @@ (600 :> {Row(600, 500, FALSE, 0), Row(600, OtherPid, FALSE, 0)})

NoGpuRows == {<<>>}

TrackerNext ==
  \/ \E pid \in Pids : SetManagedBackendPid(pid)
  \/ \E pid \in Pids : ClearManagedBackendPid(pid)
  \/ \E pid \in Pids : RegisterChildPid(pid)
  \/ RunProcessPoll(RawLists(TrackerRows), SpecGpuMaps)

TrackerSpec == Init /\ [][TrackerNext]_vars

(* FairOrphanSpec: both polls, kept running by the daemon's timers, on scans
   that list orphans *)

OrphanRows == (500 :> {Row(500, OtherPid, TRUE, 0), Row(500, OtherPid, TRUE, 1)})
           @@ (600 :> {Row(600, 500, FALSE, 0), Row(600, OtherPid, FALSE, 0)})

OrphanNext ==
  \/ RunProcessPoll(RawLists(OrphanRows), SpecGpuMaps)
  \/ RunCudaPoll({NoGpu}, NoGpuRows, Delivered)
  \/ EvaluateResume(NoOwner, Delivered)

FairOrphanSpec ==
  /\ Init /\ [][OrphanNext]_vars
  /\ WF_vars(RunProcessPoll(RawLists(OrphanRows), SpecGpuMaps))
  /\ WF_vars(RunCudaPoll({NoGpu}, NoGpuRows, Delivered))
  /\ WF_vars(EvaluateResume(NoOwner, Delivered))

\* the status the last scan gave pid ("absent" when it did not list it)
StatusOf(pid) ==
  IF pid \in PidsOf(latestProcesses)
  THEN latestProcesses[Find(latestProcesses, pid)].status ELSE "absent"

(* C7: an unmanaged process whose parent is missing from the scan is not
   `zombie` on the first scan that observes it so and is `zombie` on the second
   consecutive one. *)
C7_ZombieOnSecondScan ==
  \A p \in Pids :
     /\ scanObs[p] = 1 => StatusOf(p) # "zombie"
     /\ scanObs[p] = 2 => StatusOf(p) = "zombie"

(* C6: with polls that keep running, the Reaper enabled, not in dry-run, with
   orphan-kill on and no kill issued, an unmanaged process that stays alive with
   a dead parent is eventually reported `zombie`, eventually an orphan-kill
   candidate and eventually sent a termination signal. *)
C6_OrphanEventuallyKilled ==
  <>[](scanObs[500] >= 1)
    => /\ <>(StatusOf(500) = "zombie")
       /\ <>(\E i \in 1..Len(ret.cands) :
               ret.cands[i].pid = 500 /\ ret.cands[i].rule = "orphan-kill")
       /\ <>(\E s \in ret.signals : s.pid = 500)

----------------------------------------------------------------------------
(* C8: in every evaluation cycle rule 2 makes a GPU process a candidate exactly
   when more than one GPU process uses more than 4000 MB, the process is one of
   them and it is unmanaged; and with an unmanaged 5000 MB process (500) and a
   managed 6000 MB process (600) in two consecutive cycles, 500 is killed on the
   second cycle and 600 gets no action.  The scenario is taken with the rule on,
   the breaker not tripped, 500 still unregistered and not signalled on the
   first of the two cycles. *)

\* a step in which evaluate has run rule 2 and waits for getPortOwner
RanRuleTwo == ev.pc = "idle" /\ ev'.pc = "port"

DuplicateScenario ==
  <<[pid |-> 500, usedMemoryMb |-> 5000, isManaged |-> FALSE],
    [pid |-> 600, usedMemoryMb |-> 6000, isManaged |-> TRUE]>>

C8_DuplicateModel ==
  [][/\ (RanRuleTwo /\ RuleOn(config, "duplicate-model")) =>
          \A p \in Pids :
             (\E i \in 1..Len(ev'.head) :
                 ev'.head[i].pid = p /\ ev'.head[i].rule = "duplicate-model")
             <=> /\ Cardinality(GpuHogs(latestCuda'.processes)) > 1
                 /\ \E i \in GpuHogs(latestCuda'.processes) :
                       latestCuda'.processes[i].pid = p
                 /\ p \notin managedPids
     /\ (/\ Returns /\ ret.enabled /\ ret'.enabled
         /\ ret'.same /\ ret'.cudaProcs = DuplicateScenario
         /\ \A s \in ret.signals : s.pid # 500
         /\ 500 \notin managedPids
         /\ getKillsInWindow(actionLog, config, clock) < config.maxKillsPerWindow)
        => /\ \E j \in ActionsFor(ret'.actions, 500) : ret'.actions[j].outcome = "killed"
           /\ ActionsFor(ret.actions, 600) = {}
           /\ ActionsFor(ret'.actions, 600) = {}]_vars

\* the second cycle of the scenario has killed 500 and left 600 alone
C8_Witness ==
  /\ ret.same /\ ret.cudaProcs = DuplicateScenario
  /\ 500 \in KilledPids(ret.actions)
  /\ ActionsFor(ret.actions, 600) = {}
  /\ 600 \in managedPids

----------------------------------------------------------------------------
(* MonitorSpec: GPU polls that have GPU data, with the registry *)

\* nvidia-smi answers: no GPU, or used memory 1000, 1500 or 1600 MB at 50 C
GpuInfos ==
  {NoGpu} \cup {[memoryUsedMb |-> m, temperature |-> 50] : m \in {1000, 1500, 1600}}

\* two small GPU processes, each present or not
SmallUsage == (500 :> {3000}) @@ (600 :> {200})

MonitorNext ==
  \/ \E pid \in Pids : RegisterChildPid(pid)
  \/ \E pid \in Pids : ClearManagedBackendPid(pid)
  \/ RunCudaPoll(GpuInfos, GpuRowLists(SmallUsage), Delivered)
  \/ EvaluateResume(NoOwner, Delivered)

MonitorSpec == Init /\ [][MonitorNext]_vars

\* a step in which pollCuda returns its snapshot
Polls == ev.pc = "idle" /\ (ev'.pc = "port" \/ Returns)

LeakAlertsOf(cuda) == {i \in 1..Len(cuda.alerts) : cuda.alerts[i].type = "vram-leak"}

(* C9: a GPU poll emits a `vram-leak` alert, of severity `warning`, exactly when
   the previous poll had GPU data, used memory grew by more than 500 MB since
   then and no GPU process is managed. *)
C9_VramLeak ==
  [][Polls =>
       /\ LeakAlertsOf(latestCuda') # {}
           <=> /\ previousSnapshot.gpu # NoGpu
               /\ latestCuda'.gpu # NoGpu
               /\ latestCuda'.gpu.memoryUsedMb - previousSnapshot.gpu.memoryUsedMb > 500
               /\ PidsOf(latestCuda'.processes) \cap managedPids = {}
       /\ \A i \in LeakAlertsOf(latestCuda') :
            latestCuda'.alerts[i].severity = "warning"]_vars

\* a poll that found growth of more than 500 MB with unmanaged GPU processes only
C9_Witness ==
  /\ LeakAlertsOf(latestCuda) # {}
  /\ latestCuda.processes # <<>>

----------------------------------------------------------------------------
(* FenceSpec: the calls of the Inference Fence *)

ModelLimits == {[maxConcurrentModels |-> n] : n \in 0..2}

FenceNext ==
  \/ Tick
  \/ FenceUpdateConfig(ModelLimits)
  \/ ResetFence
  \/ MarkPromptStarted
  \/ MarkPromptFinished
  \/ AcquireLock
  \/ ReleaseLock
  \/ GetFenceStatus
  \/ CanLaunchModel(GpuRowLists(SpecUsage))

FenceSpec == Init /\ [][FenceNext]_vars

\* the GPU processes of the last canLaunchModel call that use more than 4000 MB
LaunchModels ==
  {i \in 1..Len(lastLaunch.processes) : lastLaunch.processes[i].usedMemoryMb > 4000}

(* C10: canLaunchModel returns allowed = true exactly when the snapshot has
   fewer GPU processes above 4000 MB than maxConcurrentModels and the lock is
   not held; with allowed = false it returns a reason. *)
C10_CanLaunchModel ==
  lastLaunch.called =>
    /\ lastLaunch.result.allowed
        <=> /\ Cardinality(LaunchModels) < lastLaunch.maxConcurrentModels
            /\ ~lastLaunch.locked
    /\ ~lastLaunch.result.allowed => lastLaunch.result.reason # "none"

\* a launch refused only because the lock is held
C10_Witness ==
  /\ lastLaunch.called /\ ~lastLaunch.result.allowed
  /\ lastLaunch.locked
  /\ Cardinality(LaunchModels) < lastLaunch.maxConcurrentModels

----------------------------------------------------------------------------
(* PatchSpec: requests to guardian/reaper/config *)

Methods == {"GET", "POST"}

\* patches of top-level scalar fields only
ScalarPatches ==
  SwitchPatches
  \cup {[maxKillsPerWindow |-> MaxKills + 1], [windowMs |-> WindowTicks + 1],
        [enabled |-> FALSE, dryRun |-> TRUE]}

\* patches that name some of the five rules, or all of them
RulePatches ==
  {[rules |-> ("port-squatter" :> FALSE)],
   [rules |-> ("orphan-kill" :> TRUE) @@ ("vram-hog" :> FALSE)],
   [rules |-> AllRules(TRUE)],
   [dryRun |-> TRUE, rules |-> ("stale-worker" :> FALSE)]}

PatchNext ==
  PostReaperConfig(Methods, ScalarPatches \cup RulePatches \cup {BadBody})

PatchSpec == Init /\ [][PatchNext]_vars

\* a step in which guardian/reaper/config answers 200 to a patch
Patched == posted'.n # posted.n /\ posted'.status = 200

(* C11: for a patch of top-level scalar fields only, getConfig() after
   updateConfig(patch) is the previous config with exactly the patched fields
   replaced: every other top-level field and every entry of rules keeps its
   value. *)
C11_ScalarPatch ==
  [][(Patched /\ "rules" \notin DOMAIN posted'.body) =>
       /\ DOMAIN getConfig(config') = DOMAIN config
       /\ \A k \in DOMAIN config :
            getConfig(config')[k] = IF k \in DOMAIN posted'.body
                                    THEN posted'.body[k] ELSE config[k]
       /\ posted'.config = getConfig(config')]_vars

\* { dryRun: true } on the default config
C11_Witness ==
  /\ posted.status = 200 /\ posted.body = [dryRun |-> TRUE]
  /\ config = [DEFAULT_REAPER_CONFIG EXCEPT !.dryRun = TRUE]

(* C12: a patch whose rules map names some of the five rules changes exactly
   the named toggles: every rule it does not name keeps its boolean value, and
   every top-level field it does not name is unchanged. *)
C12_PartialRules ==
  [][(Patched /\ "rules" \in DOMAIN posted'.body) =>
       /\ \A r \in RuleNames :
            /\ r \in DOMAIN config'.rules
            /\ config'.rules[r] = IF r \in DOMAIN posted'.body.rules
                                   THEN posted'.body.rules[r] ELSE RuleOn(config, r)
       /\ \A k \in DOMAIN config \ DOMAIN posted'.body : config'[k] = config[k]]_vars

----------------------------------------------------------------------------
(* KillSpec: requests to guardian/kill, with the registry *)

KillNext ==
  \/ \E pid \in Pids : SetManagedBackendPid(pid)
  \/ \E pid \in Pids : ClearManagedBackendPid(pid)
  \/ \E pid \in Pids : RegisterChildPid(pid)
  \/ PostKill(Methods, Pids \cup {NoPid}, Fates)

KillSpec == Init /\ [][KillNext]_vars

\* a step in which guardian/kill answers a request that names a PID
KillAnswered == manual'.n # manual.n /\ manual'.status = 200

(* C13: a manual kill request for a PID that is in the managed registry at the
   time of the request is refused (success = false) and no termination is
   invoked for it; for an unmanaged PID a termination is attempted and success
   tells whether the signal was delivered. *)
C13_ManualKill ==
  [][KillAnswered =>
       IF manual'.pid \in managedPids
       THEN ~manual'.ok /\ manual'.signals = {}
       ELSE /\ \E s \in manual'.signals : s.pid = manual'.pid
            /\ \A s \in manual'.signals : s.pid = manual'.pid /\ manual'.ok = s.delivered]_vars

\* a request for a registered PID, refused
C13_Witness ==
  /\ manual.status = 200 /\ manual.pid \in managedPids
  /\ ~manual.ok /\ manual.signals = {}

----------------------------------------------------------------------------
(* C14: after every process poll a PID is in the managed registry if and only
   if it was registered by a call and not unregistered since, or the scan lists
   it as a child of a PID that is in the registry. *)

\* the scan lists pid with a parent that is in the registry
LiveChildOfManaged(pid, processes, mp) ==
  \E i \in 1..Len(processes) :
     processes[i].pid = pid /\ processes[i].parentPid \in mp

C14_RegistryMembership ==
  [][RunProcessPoll(RawLists(TrackerRows), SpecGpuMaps) =>
       \A p \in Pids :
          p \in managedPids'
            <=> \/ p \in explicit'
                \/ LiveChildOfManaged(p, latestProcesses', managedPids')]_vars

----------------------------------------------------------------------------
(* DaemonSpec: the daemon started and stopped, its timers, and polls whose
   tools answer late *)

\* one python process, listed or not
OneProcess == {<<>>, <<Row(500, OtherPid, TRUE, 0)>>}

\* two model-sized GPU processes, listed or not
BothModels ==
  {<<>>, <<[pid |-> 500, usedMemoryMb |-> 5000], [pid |-> 600, usedMemoryMb |-> 6000]>>}

DaemonNext ==
  \/ Start
  \/ Stop
  \/ ProcessTimerFires
  \/ CudaTimerFires
  \/ ProcessPollResolves(OneProcess, SpecGpuMaps)
  \/ CudaPollResolves({NoGpu}, BothModels, Delivered)
  \/ EvaluateResume(NoOwner, Delivered)

DaemonSpec == Init /\ [][DaemonNext]_vars

\* a step in which the poll of a kind returns
PollReturned(kind) == pending'[kind] < pending[kind]

\* a step in which pollCuda resolves and runCudaPoll goes on to the Reaper
CudaResolved == ev.pc = "idle" /\ (ev'.pc = "port" \/ PollReturned("cuda"))

(* C15: when the tools of a poll answer after stop() has marked the daemon
   stopped, the results are discarded: the cached process list and GPU snapshot
   are not updated, no PID is auto-registered, the Reaper is not evaluated and
   no termination is issued. *)
C15_StopDiscards ==
  [][~running =>
       /\ PollReturned("process") =>
            latestProcesses' = latestProcesses /\ managedPids' = managedPids
       /\ CudaResolved => latestCuda' = latestCuda /\ ret'.calls = ret.calls
       /\ Returns => ret'.signals = {}]_vars

(* C16: at most one process poll and at most one GPU poll, its Reaper and Fence
   evaluation included, is in flight at any time. *)
C16_NoOverlap == pending.process <= 1 /\ pending.cuda <= 1

----------------------------------------------------------------------------
(* FailureSpec: the polls of a running daemon with tools that fail and a
   Reaper evaluation that throws *)

\* a config whose rules are null, and the way back
NullPatches == {[rules |-> NullRules], [rules |-> AllRules(TRUE)]}

FailureNext ==
  \/ Start
  \/ Stop
  \/ ProcessTimerFires
  \/ CudaTimerFires
  \/ ProcessPollResolves(OneProcess \cup {FailedList}, {<<>>, FailedMap})
  \/ CudaPollResolves({NoGpu, ToolFailed}, {<<>>, FailedList}, Delivered)
  \/ EvaluateResume(NoOwner, Delivered)
  \/ PostReaperConfig({"POST"}, NullPatches)

FailureSpec == Init /\ [][FailureNext]_vars

\* the line the catch block of a poll function logs
ErrorLine(kind) == IF kind = "process" THEN "Process poll error" ELSE "CUDA poll error"

Logged(kind, text) ==
  \E i \in 1..Len(cycles[kind].log) : cycles[kind].log[i].line = text

(* C17: a poll cycle in which a tool query failed or the Reaper or Fence
   evaluation threw has logged the failure when it returns, and while the
   daemon is running both poll timers are set. *)
C17_FailuresLogged ==
  /\ \A kind \in {"process", "cuda"} :
       (cycles[kind].failed \/ cycles[kind].threw)
         => (Logged(kind, ErrorLine(kind)) \/ (kind = "cuda" /\ ev.pc = "port"))
  /\ running => processTimer /\ cudaTimer

----------------------------------------------------------------------------
\* a step in which the fence is called (config calls and canLaunchModel aside)
FenceCall(op) == fenceCall'.n # fenceCall.n /\ fenceCall'.op = op

(* C18: acquireLock() returns true exactly when the lock was not held; a call
   on a held lock returns false and leaves the fence state unchanged; and a held
   lock is freed by releaseLock() or resetFence() only. *)
C18_AcquireLock ==
  [][/\ FenceCall("acquireLock") =>
          /\ fenceCall'.ok <=> ~locked
          /\ locked'
          /\ locked => UNCHANGED <<fenceConfig, promptStartedAt, locked>>
     /\ (locked /\ ~locked') => FenceCall("releaseLock") \/ FenceCall("resetFence")]_vars

\* a second acquireLock() on a held lock, refused
C18_Witness ==
  fenceCall.op = "acquireLock" /\ fenceCall.held /\ ~fenceCall.ok /\ locked

(* C19: resetFence(), in any fence state, leaves the lock released and the
   prompt timer absent and does not change the fence config; the next evaluate
   reports locked = false and promptTimedOut = false, and the next
   acquireLock() succeeds. *)
C19_ResetFence ==
  [][/\ FenceCall("resetFence") =>
          ~locked' /\ promptStartedAt' = None /\ fenceConfig' = fenceConfig
     /\ (fenceCall.op = "resetFence" /\ FenceCall("evaluate")) =>
          ~fenceCall'.status.locked /\ ~fenceCall'.status.promptTimedOut
     /\ (fenceCall.op = "resetFence" /\ FenceCall("acquireLock")) => fenceCall'.ok]_vars

\* a reset of a held lock, just done
C19_Witness ==
  fenceCall.op = "resetFence" /\ fenceCall.held /\ ~locked /\ promptStartedAt = None

----------------------------------------------------------------------------
(* LaunchSpec: the launcher beside the fence's lock and the GPU poll *)

\* port 8998 is free or held by a process that the launcher did not start
ForeignOwners == {NoPid, OtherPid}

OneModel == {<<>>, <<[pid |-> 600, usedMemoryMb |-> 6000]>>}

LaunchNext ==
  \/ StartBackendProcess
  \/ ReclaimOwnerResolves(ForeignOwners, Delivered)
  \/ ReclaimStillResolves(ForeignOwners)
  \/ BackendExits
  \/ AcquireLock
  \/ ReleaseLock
  \/ RunCudaPoll({NoGpu}, OneModel, Delivered)
  \/ EvaluateResume(NoOwner, Delivered)

LaunchSpec == Init /\ [][LaunchNext]_vars

\* a step in which a backend child is spawned
Spawned == launcher'.children \ launcher.children # {}

(* C20: a backend process is spawned only when canLaunchModel on the latest GPU
   snapshot allows it: no spawn while a GPU process above the model-size floor
   exists (maxConcurrentModels = 1) or the advisory lock is held. *)
C20_LaunchGated ==
  [][Spawned => canLaunchModel(latestCuda, fenceConfig, locked).allowed]_vars

----------------------------------------------------------------------------
(* OrderSpec: the Reaper with every answer of the OS to a kill, dry-run
   switched and PID 600 registered while it runs *)

DryRunPatches == {[dryRun |-> b] : b \in BOOLEAN}

OrderNext ==
  \/ UpdateConfig(DryRunPatches)
  \/ RegisterChildPid(600)
  \/ RunCudaPoll({NoGpu}, GpuRowLists(TwoModels), Fates)
  \/ EvaluateResume(NoOwner, Fates)

OrderSpec == Init /\ [][OrderNext]_vars

\* the outcome the fixed order of checks gives
OrderedOutcome(count, max, managed, dryRun, fate) ==
  IF count >= max THEN "skipped-safety"
  ELSE IF managed THEN "skipped-safety"
  ELSE IF dryRun THEN "dry-run"
  ELSE IF fate = "dead" THEN "skipped-safety"
  ELSE IF fate = "ok" THEN "killed" ELSE "failed"

(* C21: the outcome of every action is decided by the first applicable check
   in the order: kills in the window (those of the log plus those of this cycle
   so far) >= maxKillsPerWindow, PID managed, dryRun, PID no longer alive,
   signal delivered or not; a termination signal is sent exactly for the
   actions of the last case, `killed` and `failed`. *)
C21_CheckOrder ==
  [][(Returns /\ ret'.enabled) =>
       \A i \in 1..Len(ret'.actions) :
          LET a == ret'.actions[i]
              count == getKillsInWindow(actionLog, config, clock)
                       + KilledCount(SubSeq(ret'.actions, 1, i - 1))
          IN /\ a.outcome = OrderedOutcome(count, config.maxKillsPerWindow,
                                           a.targetPid \in managedPids, config.dryRun,
                                           ret'.fates[a.targetPid])
             /\ (\E s \in ret'.signals : s.pid = a.targetPid)
                  <=> a.outcome \in {"killed", "failed"}]_vars

\* a cycle with two actions: the first reached the signal, the second was
\* stopped by the breaker
C21_Witness ==
  /\ Len(ret.actions) = 2
  /\ ret.actions[1].outcome = "killed"
  /\ ret.actions[2].outcome = "skipped-safety"

----------------------------------------------------------------------------
(* UnionSpec: both polls with nothing registered, the Reaper's defaults and
   nobody listening on the port: the process scan decides whether a GPU process
   is also a candidate of rule 5 *)

UnionNext ==
  \/ RunProcessPoll(OneProcess, SpecGpuMaps)
  \/ RunCudaPoll({NoGpu}, BothModels, Delivered)
  \/ EvaluateResume(NoOwner, Delivered)

UnionSpec == Init /\ [][UnionNext]_vars

\* pid satisfies the rule on the snapshot pair of a cycle (rule 3 aside: its
\* input is the owner of the port)
Satisfies(rule, pid, processes, cudaProcs) ==
  LET listed == pid \in PidsOf(processes)
      onGpu == pid \in PidsOf(cudaProcs)
      tp == processes[Find(processes, pid)]
      gp == cudaProcs[Find(cudaProcs, pid)]
  IN CASE rule = "orphan-kill" -> listed /\ tp.status = "zombie"
       [] rule = "duplicate-model" ->
            /\ onGpu /\ gp.usedMemoryMb > 4000 /\ ~gp.isManaged
            /\ Cardinality({i \in 1..Len(cudaProcs) : cudaProcs[i].usedMemoryMb > 4000}) > 1
       [] rule = "stale-worker" -> listed /\ tp.status = "stale"
       [] rule = "vram-hog" ->
            /\ onGpu /\ gp.usedMemoryMb > 2000 /\ ~gp.isManaged
            /\ listed /\ tp.role = "unknown"
       [] OTHER -> FALSE

(* C22: a PID that satisfies an enabled rule R in two consecutive evaluation
   cycles gets an action in the second one, whichever other rules it satisfies
   in either cycle.  ret is the first cycle, ret' the second; the PID was sent
   no signal in the first. *)
C22_UnionOfRules ==
  [][(Returns /\ ret.calls > 0 /\ ret.enabled /\ ret'.enabled) =>
       \A p \in Pids, R \in RuleNames :
          (/\ RuleOn(config, R)
           /\ Satisfies(R, p, ret.processes, ret.cudaProcs)
           /\ Satisfies(R, p, ret'.processes, ret'.cudaProcs)
           /\ \A sig \in ret.signals : sig.pid # p)
          => ActionsFor(ret'.actions, p) # {}]_vars

----------------------------------------------------------------------------
(* StaleSpec: process scans over time, of a shell's python process 500 and its
   child 600, which holds GPU memory and uses the CPU or not *)

StaleLists ==
  {<<>>} \cup {<<Row(500, OtherPid, FALSE, 0), Row(600, 500, FALSE, c)>> : c \in {0, 1}}

\* nvidia-smi lists nothing, or 600 above or below the floor of 500 MB
StaleGpuMaps == {<<>>, (600 :> 1000), (600 :> 300)}

StaleNext ==
  \/ Tick
  \/ RunProcessPoll(StaleLists, StaleGpuMaps)

StaleSpec == Init /\ [][StaleNext]_vars

(* C23: an unmanaged process that is on the GPU above 500 MB with a CPU
   activity of at most 1 % is `stale` on the third consecutive scan in which
   this holds, and is not `stale` on the first or the second. *)
C23_StaleOnThirdScan ==
  \A p \in Pids :
     /\ idleObs[p] \in {1, 2} => StatusOf(p) # "stale"
     /\ idleObs[p] = 3 => StatusOf(p) = "stale"

----------------------------------------------------------------------------
(* RoleSpec: process scans of the launcher 500 and of 600, which is its child
   with the backend's command line, its child without it, or a stranger *)

RoleRows == (500 :> {Row(500, OtherPid, TRUE, 0)})
         @@ (600 :> {Row(600, 500, TRUE, 0), Row(600, 500, FALSE, 0),
                     Row(600, OtherPid, FALSE, 0)})

RoleNext ==
  \/ \E pid \in Pids : SetManagedBackendPid(pid)
  \/ \E pid \in Pids : ClearManagedBackendPid(pid)
  \/ RunProcessPoll(RawLists(RoleRows), SpecGpuMaps)

RoleSpec == Init /\ [][RoleNext]_vars

(* C24: in every process scan a process whose command line matches the
   backend signature has role `backend-server` only if its PID is in the
   registry and role `unknown` otherwise, and every process whose parent PID is
   in the registry has role `model-worker`.  The registry is the one the scan
   reads, before the poll registers children. *)
C24_RoleClassification ==
  [][RunProcessPoll(RawLists(RoleRows), SpecGpuMaps) =>
       \A i \in 1..Len(latestProcesses') :
          LET tp == latestProcesses'[i]
          IN /\ tp.moshi =>
                  /\ tp.role = "backend-server" => tp.pid \in managedPids
                  /\ tp.pid \notin managedPids => tp.role = "unknown"
             /\ tp.parentPid \in managedPids => tp.role = "model-worker"]_vars

----------------------------------------------------------------------------
(* C25: after every process scan the CPU samples and the anomaly counters
   exist only for PIDs of that scan, and a PID that a scan saw gone and a
   later scan lists again gets no action from the candidate entry made before
   it was gone: the process that has the PID now is a new one. *)
C25_NoInheritedState ==
  [][/\ RunProcessPoll(OneProcess, SpecGpuMaps) =>
          /\ DOMAIN lastCpuSnapshot' \subseteq PidsOf(latestProcesses')
          /\ DOMAIN staleCycles' \subseteq PidsOf(latestProcesses')
     /\ Returns => \A p \in Pids :
                       goneObs[p] = "back" => ActionsFor(ret'.actions, p) = {}]_vars

----------------------------------------------------------------------------
(* C26: an evaluation that returns appends all its actions, whatever their
   outcome, to the action log in the order it produced them; the log holds at
   most LogCap entries, and the entries dropped are the oldest ones: the log
   afterwards is the end of the old log followed by the actions.  No other
   step changes the log.  Checked under OrderSpec. *)
C26_LogAppend ==
  [][IF Returns
     THEN LET all == actionLog \o ret'.actions
              n == Len(actionLog')
          IN /\ n = Min({Len(all), LogCap})
             /\ actionLog' = SubSeq(all, Len(all) - n + 1, Len(all))
     ELSE actionLog' = actionLog]_vars

\* an evaluation has returned a failed kill first, and the full log ends with
\* the last action it returned
C26_Witness ==
  /\ ret.enabled
  /\ Len(ret.actions) >= 1
  /\ ret.actions[1].outcome = "failed"
  /\ Len(actionLog) = LogCap
  /\ actionLog[LogCap] = ret.actions[Len(ret.actions)]

----------------------------------------------------------------------------
(* SwitchSpec: the Reaper over time, switched off and on between GPU polls
   that list two model-sized processes or none *)

EnabledPatches == {[enabled |-> b] : b \in BOOLEAN}

SwitchNext ==
  \/ Tick
  \/ UpdateConfig(EnabledPatches)
  \/ RunCudaPoll({NoGpu}, BothModels, Delivered)
  \/ EvaluateResume(NoOwner, Delivered)

SwitchSpec == Init /\ [][SwitchNext]_vars

\* the PID of the log's last entry, if that entry is a kill
LastKilled ==
  IF actionLog # <<>> /\ actionLog[Len(actionLog)].outcome = "killed"
  THEN {actionLog[Len(actionLog)].targetPid} ELSE {}

(* C27: a PID for which an evaluation returns an action with outcome `killed`
   has no candidate entry when that evaluation returns, and the next action on
   that PID comes only from an evaluation that finds it a candidate under the
   action's rule when the evaluation before it found the same: two consecutive
   cycles again.  ret is the call before, ret' the call that returns. *)
C27_KilledStartsOver ==
  [][Returns =>
       /\ KilledPids(ret'.actions) \cap DOMAIN candidates' = {}
       /\ \A p \in LastKilled :
            \A i \in ActionsFor(ret'.actions, p) :
               \E j \in 1..Len(ret.cands) :
                  ret.cands[j].pid = p /\ ret.cands[j].rule = ret'.actions[i].rule]_vars

----------------------------------------------------------------------------
(* OutageSpec: the two polls with tools that answer or fail: the process
   enumeration, the per-PID GPU memory query and the GPU process query *)

OutageNext ==
  \/ RunProcessPoll(OneProcess \cup {FailedList}, {<<>>, FailedMap})
  \/ RunCudaPoll({NoGpu}, BothModels \cup {FailedList}, Delivered)
  \/ EvaluateResume(NoOwner, Delivered)

OutageSpec == Init /\ [][OutageNext]_vars

(* C28: a process poll whose enumeration fails keeps the CPU sample and the
   anomaly counter of every PID that had one, and keeps the candidate entries;
   a GPU poll whose process query fails keeps every candidate entry and the
   CPU samples.  In OutageSpec a GPU cycle is marked failed exactly when the
   process query failed. *)
C28_FailureRetains ==
  [][/\ RunProcessPoll({FailedList}, {<<>>, FailedMap}) =>
          /\ DOMAIN lastCpuSnapshot \subseteq DOMAIN lastCpuSnapshot'
          /\ DOMAIN staleCycles \subseteq DOMAIN staleCycles'
          /\ candidates' = candidates
     /\ (Returns /\ cycles'.cuda.failed) =>
          /\ \A p \in DOMAIN candidates :
               p \in DOMAIN candidates' /\ candidates'[p] = candidates[p]
          /\ lastCpuSnapshot' = lastCpuSnapshot]_vars

----------------------------------------------------------------------------
(* C29: an evaluation has no suspension point at which another callback runs:
   while an evaluation has started and not returned, no step changes the
   registry, the config, the candidate map, the action log or the process
   list, so what the evaluation read at its start is in force when it issues
   its kills.  Checked under OrderSpec. *)
C29_NoSuspension ==
  [][(ev.pc = "port" /\ ev'.pc = "port") =>
       /\ managedPids' = managedPids
       /\ config' = config
       /\ candidates' = candidates
       /\ actionLog' = actionLog
       /\ latestProcesses' = latestProcesses]_vars

----------------------------------------------------------------------------
(* WarmupSpec: the launcher starts the backend, the backend reports its
   phases and exits, time passes, and the fence is marked and evaluated *)

WarmupNext ==
  \/ Tick
  \/ StartBackendProcess
  \/ ReclaimOwnerResolves(NoOwner, Delivered)
  \/ BackendOutput(LogLines)
  \/ BackendExits
  \/ MarkPromptStarted
  \/ MarkPromptFinished
  \/ ResetFence
  \/ GetFenceStatus

WarmupSpec == Init /\ [][WarmupNext]_vars

\* the backend was started and has not reported that it serves
WarmingUp ==
  /\ backendState.process # NoPid
  /\ backendState.phase \in {"starting", "loading_mimi", "mimi_loaded", "loading_moshi",
                             "moshi_loaded", "warming_up_model"}

\* a step in which the fence is evaluated
FenceEvaluated == fenceCall'.n # fenceCall.n /\ fenceCall'.op = "evaluate"

(* C30: the status the fence returns has promptTimedOut exactly when a prompt
   window was marked started, was not marked finished or reset since, and more
   than promptTimeoutMs have passed since the mark; and a backend that has been
   warming up for more than promptTimeoutMs is reported as timed out, the
   launcher having marked the start of the warm-up. *)
C30_PromptTimeout ==
  [][FenceEvaluated =>
       /\ fenceCall'.status.promptTimedOut
            <=> /\ promptStartedAt # None
                /\ clock - promptStartedAt > fenceConfig.promptTimeoutMs
       /\ (WarmingUp /\ clock - backendState.startedAt > fenceConfig.promptTimeoutMs)
            => fenceCall'.status.promptTimedOut]_vars

----------------------------------------------------------------------------
\* a step in which canLaunchModel is called
LaunchChecked == lastLaunch' # lastLaunch

(* C31: a call of the fence's evaluate or of canLaunchModel leaves the lock,
   the start of the prompt window and the fence's config as they are, however
   often it is made.  Checked under FenceSpec. *)
C31_PureReads ==
  [][(FenceEvaluated \/ LaunchChecked) =>
       /\ locked' = locked
       /\ promptStartedAt' = promptStartedAt
       /\ fenceConfig' = fenceConfig]_vars

\* the fence was evaluated and canLaunchModel called with the lock held and a
\* prompt window open, and both are as they were
C31_Witness ==
  /\ fenceCall.op = "evaluate" /\ fenceCall.status.locked
  /\ fenceCall.status.promptStartedAt # None
  /\ lastLaunch.called /\ lastLaunch.locked
  /\ locked /\ promptStartedAt = fenceCall.status.promptStartedAt

----------------------------------------------------------------------------
\* the history entry that summarises a snapshot
Summary(cuda) ==
  [timestamp |-> cuda.timestamp, memoryUsedMb |-> cuda.gpu.memoryUsedMb,
   temperature |-> cuda.gpu.temperature, processCount |-> Len(cuda.processes)]

(* HistorySpec: GPU polls that have GPU data, one GPU process or none *)

\* one GPU process of 3000 MB, listed or not
OneHog == {<<>>, <<[pid |-> 500, usedMemoryMb |-> 3000]>>}

HistoryNext ==
  \/ RunCudaPoll(GpuInfos, OneHog, Delivered)
  \/ EvaluateResume(NoOwner, Delivered)

HistorySpec == Init /\ [][HistoryNext]_vars

(* C32: the rolling history never holds more than HistoryCap entries; a GPU
   poll that got GPU data appends the one entry that summarises its snapshot
   and drops entries from the front only; a poll without GPU data and every
   other step leave the history as it is.  Checked under MonitorSpec. *)
C32_RollingHistory ==
  [][IF Polls /\ latestCuda'.gpu # NoGpu
     THEN LET all == Append(history, Summary(latestCuda'))
              n == Len(history')
          IN /\ n = Min({Len(all), HistoryCap})
             /\ history' = SubSeq(all, Len(all) - n + 1, Len(all))
     ELSE history' = history]_vars

\* the history is full, ends with the entry of the last poll and begins with
\* the entry of a poll that read another amount of memory
C32_Witness ==
  /\ Len(history) = HistoryCap
  /\ latestCuda.gpu # NoGpu
  /\ history[HistoryCap] = Summary(latestCuda)
  /\ history[1].memoryUsedMb # history[HistoryCap].memoryUsedMb

----------------------------------------------------------------------------
(* C33: every process of every scan has a cpuPercent from 0 to 100, whatever
   the two samples of its CPU seconds and the time between them are, and a PID
   that the scan finds without an earlier sample has cpuPercent 0.  Checked
   under StaleSpec, where the CPU seconds read for PID 600 go up and down. *)
C33_CpuPercentRange ==
  [][RunProcessPoll(StaleLists, StaleGpuMaps) =>
       \A i \in 1..Len(latestProcesses') :
          LET tp == latestProcesses'[i]
          IN /\ tp.cpuPercent \in 0..100
             /\ tp.pid \notin DOMAIN lastCpuSnapshot => tp.cpuPercent = 0]_vars

----------------------------------------------------------------------------
(* C34: an evaluation that returns while the Reaper is disabled returns no
   action and has sent no signal, and the first evaluation after the Reaper
   was enabled again, the one that follows an evaluation that found it
   disabled, returns no action.  Checked under SwitchSpec. *)
C34_DisabledAndReenabled ==
  [][Returns =>
       /\ ~config.enabled => ret'.actions = <<>> /\ ret'.signals = {}
       /\ (ret.calls > 0 /\ ~ret.enabled) => ret'.actions = <<>>]_vars

----------------------------------------------------------------------------
(* FamilySpec: the launcher 500 is registered at some time; its child 600,
   the interpreter that serves port 8998 and holds the model, is listed by the
   process scan, by nvidia-smi and by netstat, or not yet *)

FamilyLists == {<<>>, <<Row(500, OtherPid, FALSE, 0), Row(600, 500, TRUE, 0)>>}

FamilyModels == {<<>>, <<[pid |-> 600, usedMemoryMb |-> 6000]>>}

FamilyOwners == {NoPid, 600}

\* in FamilySpec PID 600 is the child of PID 500 for as long as it lives
FamilyParent == (600 :> 500)

FamilyNext ==
  \/ SetManagedBackendPid(500)
  \/ RunProcessPoll(FamilyLists, SpecGpuMaps)
  \/ RunCudaPoll({NoGpu}, FamilyModels, Delivered)
  \/ EvaluateResume(FamilyOwners, Delivered)

FamilySpec == Init /\ [][FamilyNext]_vars

(* C35: no evaluation sends a kill signal that is delivered to a process whose
   parent is in the managed registry, however the process polls, the GPU polls
   and the registration calls of the launcher interleave. *)
C35_ChildrenProtected ==
  [][Returns =>
       \A sig \in ret'.signals :
          (sig.delivered /\ sig.pid \in DOMAIN FamilyParent)
          => FamilyParent[sig.pid] \notin managedPids]_vars


----------------------------------------------------------------------------
(* ExitSpec: one backend from its start to its exit, with the PID polling of
   the child and the process polls of the daemon between the two. *)

ExitNext ==
  \/ StartBackendProcess
  \/ ReclaimOwnerResolves(NoOwner, Delivered)
  \/ PidPollingFires
  \/ PidPollingResolves(Pids \cup {NoPid})
  \/ RunProcessPoll(FamilyLists, SpecGpuMaps)
  \/ BackendExits

ExitSpec == Init /\ [][ExitNext]_vars

\* no child lives, and no call of the launcher is in flight
BackendGone ==
  /\ launcher.children = {}
  /\ launcher.starting = <<>>
  /\ launcher.probing = {}

(* C36: after the backend has exited and the launcher has called
   clearManagedBackendPid, the registry holds no PID that was registered for
   that backend (the launcher's PID, the owner of the port found later, the
   children registered by the process poll) and managedBackendPid is absent. *)
C36_ExitClearsRegistry ==
  BackendGone => managedPids = {} /\ managedBackendPid = NoPid


(* C37: the launcher has spawned and tracks at most one backend child at any
   time, also when a start, warm-up or restart request arrives while an
   earlier start request is waiting for the owner of the port. *)
C37_SingleChild == Cardinality(launcher.children) <= 1


(* C38: getKillsInWindow() is the number of actions with outcome `killed` that
   the Reaper has produced in the last windowMs, however many other actions
   the log has received since those kills. *)
C38_WindowCount == getKillsInWindow(actionLog, config, clock) = KillsInWindow


\* the timer handles and the intervals of the event loop agree with `running`
TimersMatch ==
  /\ intervals.process <= 1 /\ intervals.cuda <= 1
  /\ running <=> intervals.process = 1
  /\ running <=> intervals.cuda = 1
  /\ running <=> processTimer
  /\ running <=> cudaTimer

(* C39: for any sequence of start() and stop() calls, at most one process-poll
   interval and one GPU-poll interval exist at any time, both exist exactly
   when the daemon is running, a call that finds the daemon running and leaves
   it running, or finds it stopped and leaves it stopped, changes neither the
   handles nor the intervals, and with the daemon stopped no interval is left. *)
C39_Timers ==
  [][/\ TimersMatch'
     /\ (running <=> running') => daemonVars' = daemonVars
     /\ ~running' => intervals' = NoIntervals]_vars

\* stop() after start(): the polls that start() called have not returned yet
C39_Witness ==
  /\ ~running
  /\ pending.process > 0 /\ pending.cuda > 0
  /\ intervals = NoIntervals
  /\ ~processTimer /\ ~cudaTimer


(* C40: after any sequence of setManagedBackendPid, clearManagedBackendPid and
   registerChildPid calls, managedBackendPid, when it is not null, is a member
   of the registry. *)
C40_BackendRegistered ==
  managedBackendPid # NoPid => managedBackendPid \in managedPids

\* 500 was registered when a scan listed it and has been cleared since; the
\* backend is 600
C40_Witness ==
  /\ managedBackendPid = 600
  /\ managedPids = {600}
  /\ \E i \in 1..Len(latestProcesses) :
        latestProcesses[i].pid = 500 /\ latestProcesses[i].role = "backend-server"

====
